---- MODULE Spec2Model ----
(***************************************************************************)
(* A model of the job-application tracker web client: the session kept by  *)
(* AuthProvider and the API client's interceptors, the ProtectedRoute      *)
(* guard, the account-deletion dialog, the cached lists and the mutations  *)
(* that invalidate them, the applications filter and the form validation.  *)
(***************************************************************************)
EXTENDS Integers, Sequences, FiniteSets, TLC

(***************************************************************************)
(* Bounds of the model.                                                    *)
(***************************************************************************)
MaxInFlight == 2
\* ids the server hands out per kind of entity
MaxIds == 2
\* mutations the page has sent and not yet seen settled
MaxPending == 1
\* mutations sent in a behaviour
MaxMutations == 1
\* applications the list query answers
MaxApps == 2

(***************************************************************************)
(* Values.                                                                 *)
(***************************************************************************)
\* null: of a string, of a User object, of a stored item, of a path.
Null == "null"
NullUser == [id |-> 0]
NoItem == <<>>
NoPath == <<>>
Tokens == {"t1", "t2"}
NoRole == "norole"

\* types/auth.types.ts: User (id, email, role?); the email is a sequence of
\* characters so that trim() and toLowerCase() act on it.
Users ==
  { [id |-> 1, email |-> <<"A", "b">>, role |-> "USER"],
    [id |-> 1, email |-> <<"d">>, role |-> "USER"],
    [id |-> 2, email |-> <<"c">>, role |-> "ADMIN"] }

\* A path is a sequence of "/" separators and segments.
PathLogin == <<"/", "login">>
PathRegister == <<"/", "register">>
PathRoot == <<"/">>
PathDashboard == <<"/", "dashboard">>
PathProfile == <<"/", "profile">>
PathSettings == <<"/", "settings">>
PathNewApplication == <<"/", "applications", "/", "new">>
PathApplications == <<"/", "applications">>
ProtectedPaths == {PathDashboard, PathProfile, PathSettings, PathNewApplication}
\* The protected pages a user opens by hand in Spec.
OpenedPaths == {PathDashboard, PathNewApplication}
PublicPaths == {PathLogin, PathRegister, PathRoot}
RequiredRoles == {NoRole, "ADMIN"}

\* HTTP outcomes of a request: a status, 0 when no response arrived.
Statuses == {0, 200, 401, 500}

VARIABLES
  lsToken,      \* localStorage['job_tracker_token'] (Null when absent)
  lsUser,       \* localStorage['job_tracker_user']  (Null when absent)
  token,        \* AuthProvider state
  user,         \* AuthProvider state
  isLoading,    \* AuthProvider state
  location,     \* the router's location: [path, returnUrl]
  unloadTo,     \* the path assigned to window.location.href and not yet loaded, NoPath if none
  requiredRole, \* the requiredRole prop of the route element at the location
  lastGuard,    \* what ProtectedRoute did in the last render, NoGuard if it did not render
  inflight,     \* requests sent by the API client and not yet settled
  sessionToken, \* history: token stored by the last successful login, Null after a logout or a 401
  sessionUser,  \* history: the user most recently stored by login or updateUser, NullUser after a logout or a 401
  restored,     \* history: the mount effect of this provider took a session from local storage
  lastResponse, \* history: the response settled by the last step, NoResponse otherwise
  \* AccountDeletionDialog (mounted by the settings page)
  dlgOpen,      \* the open prop (SettingsPage's deletionDialogOpen)
  step,
  acknowledged,
  emailInput,
  isDeleting,
  \* the backend's entities, the query cache and the page that uses it
  srv,          \* per kind of entity, id -> [st, sent, rev, due]
  cache,        \* query key -> [has, data, stale, fetching]
  page,         \* the page mounted inside the layout
  pending,      \* mutations sent and not settled
  deletedFrom,  \* history: query key -> ids deleted by a mutation issued from that list
  awaiting,     \* history: the last sent-toggle: [key, id, before, n, outcome, refetched]
  issued,       \* number of mutations sent
  followed,     \* the kind of entity whose queries and mutations the behaviour follows
  lastSettled,  \* history: what the handlers of the mutation settled by the last step did
  \* the applications list page's filter (ApplicationsListPage)
  applications,        \* the query's data: [loaded, rows]
  searchInput,
  debouncedSearch,
  selectedStatuses,
  salaryMin,
  salaryMax,
  filteredApplications,
  timer,               \* useDebouncedValue's pending timeout: [armed, left]
  unchangedFor,        \* history: how long searchInput has had its value (capped at the delay)
  \* the forms of the pages
  form,         \* the open form with its fields, or NoForm
  lastRequest,  \* history: the request the last submit sent, or NoRequest
  \* the settings page's preferences (SettingsPage)
  lsPrefs,      \* localStorage['job_tracker_preferences'] (NoItem when absent)
  preferences,  \* SettingsPage state (the initial value while the page is not mounted)
  \* the registration page (RegisterPage)
  email,        \* watch('email'): the value of the email field
  checkTimer,   \* the pending timeout of the debounce effect: [armed, left]
  emailExists,  \* RegisterPage state
  isCheckingEmail,\* RegisterPage state
  isSubmitting, \* RegisterPage state
  checks,       \* checkEmailExists requests sent and not settled, oldest first
  registers,    \* number of register requests sent and not settled
  emailUnchangedFor,\* history: how long the email field has had its value (capped at the delay)
  lastReport,   \* history: what the last completed check reported
  \* the verify-email page (VerifyEmailPage)
  urlToken,     \* searchParams.get('token') (Null when the URL has none)
  stateEmail,   \* location.state?.email is present
  isVerifying,  \* VerifyEmailPage state
  isVerified,   \* VerifyEmailPage state
  verifyError,  \* VerifyEmailPage state: error is set
  effectRan,    \* the mount effect has run
  verifying,    \* verifyEmail requests sent and not settled
  redirectTimer,\* the timeout set after a successful verification: [armed, left]
  isResending,  \* VerifyEmailPage state
  resendCooldown,\* VerifyEmailPage state
  verifiedFor,  \* history: how long ago the page became verified (capped at the delay)
  lastResend,   \* history: how the last resend request settled ("none" before any)
  \* AnalyticsPage: the ["applications"] query's data and the useMemo result
  analyticsData,\* what useQuery returned to AnalyticsPage
  analytics,    \* the memoised aggregates, null until there are rows
  \* CalendarPage: the browser's time zone, the displayed month, the two queries' data and the two memos
  calTimeZone,  \* hours the browser's local time is ahead of UTC
  currentMonth, \* first day of the displayed month
  calReminders, \* data of the ["calendar-reminders"] query
  calApplications,\* data of the ["applications"] query on CalendarPage
  monthMatrix,  \* the weeks of the grid
  eventsByDate, \* the events under their date keys
  \* the status badges ApplicationsListPage and ApplicationDetailPage render
  listBadges,   \* the rows' badges on the list page, none before the list is fetched
  detailBadge,  \* the badge under the title of the detail page, none before the application is fetched
  \* RemindersListPage: the query's data, the two filters and what the page shows
  remindersData,\* data of the ["reminders-all"] query
  statusFilter, \* all, open or sent
  searchQuery,  \* the text of the search box
  groupedReminders,\* the four sections' reminders
  remindersView,\* skeleton, sections or empty
  \* the router and the sidebar: which Router is mounted, the history stack and the matched element
  router,       \* main for the Router of main.tsx, App for that of App.tsx
  history,      \* the history stack, the current location last
  routeElement  \* the page of the route that matches the current location

authVars ==
  <<lsToken, lsUser, token, user, isLoading, location, unloadTo, requiredRole, lastGuard,
    inflight, sessionToken, sessionUser, restored,
    lastResponse>>

dlgVars == <<dlgOpen, step, acknowledged, emailInput, isDeleting>>

cacheVars ==
  <<srv, cache, page, pending, deletedFrom, awaiting, issued, followed, lastSettled>>

filterVars ==
  <<applications, searchInput, debouncedSearch, selectedStatuses, salaryMin,
    salaryMax, filteredApplications, timer, unchangedFor>>

formVars == <<form, lastRequest>>

prefVars == <<lsPrefs, preferences>>

regVars ==
  <<email, checkTimer, emailExists, isCheckingEmail, isSubmitting, checks, registers,
    emailUnchangedFor, lastReport>>

verifyVars == <<urlToken, stateEmail, isVerifying, isVerified, verifyError, effectRan, verifying, redirectTimer, isResending, resendCooldown, verifiedFor, lastResend>>

analyticsVars == <<analyticsData, analytics>>

calendarVars == <<calTimeZone, currentMonth, calReminders, calApplications, monthMatrix, eventsByDate>>

badgeVars == <<listBadges, detailBadge>>

remindersVars == <<remindersData, statusFilter, searchQuery, groupedReminders, remindersView>>

navVars == <<router, history, routeElement>>

\* what the session's and the dialog's actions leave alone
restVars == <<cacheVars, filterVars, formVars, regVars, verifyVars, analyticsVars, calendarVars, badgeVars, remindersVars, navVars>>

\* what the pages' queries and mutations leave alone
notCacheVars == <<authVars, dlgVars, filterVars, formVars, prefVars, regVars, verifyVars, analyticsVars, calendarVars, badgeVars, remindersVars, navVars>>

\* what the list page's filter leaves alone
notFilterVars == <<authVars, dlgVars, cacheVars, formVars, prefVars, regVars, verifyVars, analyticsVars, calendarVars, badgeVars, remindersVars, navVars>>

\* what the forms leave alone
notFormVars == <<authVars, dlgVars, cacheVars, filterVars, prefVars, regVars, verifyVars, analyticsVars, calendarVars, badgeVars, remindersVars, navVars>>

notRegVars == <<authVars, dlgVars, cacheVars, filterVars, formVars, prefVars, verifyVars, analyticsVars, calendarVars, badgeVars, remindersVars, navVars>>

notVerifyVars == <<authVars, dlgVars, cacheVars, filterVars, formVars, prefVars, regVars, analyticsVars, calendarVars, badgeVars, remindersVars, navVars>>

\* what a navigation of the verify-email page leaves alone besides the session
notVerifyAuthVars == <<dlgVars, cacheVars, filterVars, formVars, prefVars, regVars, analyticsVars, calendarVars, badgeVars, remindersVars, navVars>>

notAnalyticsVars == <<authVars, dlgVars, cacheVars, filterVars, formVars, prefVars, regVars, verifyVars, calendarVars, badgeVars, remindersVars, navVars>>

notCalendarVars == <<authVars, dlgVars, cacheVars, filterVars, formVars, prefVars, regVars, verifyVars, analyticsVars, badgeVars, remindersVars, navVars>>

notBadgeVars == <<authVars, dlgVars, cacheVars, filterVars, formVars, prefVars, regVars, verifyVars, analyticsVars, calendarVars, remindersVars, navVars>>

notRemindersVars == <<authVars, dlgVars, cacheVars, filterVars, formVars, prefVars, regVars, verifyVars, analyticsVars, calendarVars, badgeVars, navVars>>

notNavVars == <<authVars, dlgVars, cacheVars, filterVars, formVars, prefVars, regVars, verifyVars, analyticsVars, calendarVars, badgeVars, remindersVars>>

vars == <<authVars, dlgVars, cacheVars, filterVars, formVars, prefVars, regVars, verifyVars, analyticsVars, calendarVars, badgeVars, remindersVars, navVars>>

(***************************************************************************)
(* Conversions.                                                            *)
(***************************************************************************)
\* JSON.stringify of a User: the field values in key order.
JSONStringify(u) == <<"{", u.id, u.email, u.role, "}">>

JSONParses(s) == Len(s) = 5 /\ s[1] = "{" /\ s[5] = "}"

\* A parse that loses the email.
JSONParseWithoutEmail(s) == [id |-> s[2], email |-> <<>>, role |-> s[4]]

\* JSON.parse of what JSONStringify wrote.
JSONParse(s) == [id |-> s[2], email |-> s[3], role |-> s[4]]

RECURSIVE encodeURIComponent(_)
encodeURIComponent(p) ==
  IF p = <<>> THEN <<>>
  ELSE <<IF Head(p) = "/" THEN "%2F" ELSE Head(p)>> \o encodeURIComponent(Tail(p))

RECURSIVE decodeURIComponent(_)
decodeURIComponent(p) ==
  IF p = <<>> THEN <<>>
  ELSE <<IF Head(p) = "%2F" THEN "/" ELSE Head(p)>> \o decodeURIComponent(Tail(p))

Truthy(x) == x # Null /\ x # ""

Bearer(t) == <<"Bearer", t>>
NoHeader == <<>>

NoGuard == [shown |-> "none"]
NoResponse == [status |-> -1]

NoNav == [path |-> NoPath]
At(path) == [path |-> path, returnUrl |-> NoPath]

(***************************************************************************)
(* AuthProvider value (contexts/AuthContext.tsx).                          *)
(***************************************************************************)
isAuthenticated(tk, us) == Truthy(tk) /\ us # NullUser

(***************************************************************************)
(* ProtectedRoute (components/ProtectedRoute.tsx).                         *)
(***************************************************************************)
\* ProtectedRoute without its role check.
ProtectedRouteNoRoleCheck(role, loading, tk, us, loc) ==
  IF loading
  THEN [at |-> loc.path, role |-> role, shown |-> "spinner", nav |-> NoNav]
  ELSE IF ~isAuthenticated(tk, us)
  THEN [at |-> loc.path, role |-> role, shown |-> "nothing",
        nav |-> [path |-> PathLogin, returnUrl |-> encodeURIComponent(loc.path)]]
  ELSE [at |-> loc.path, role |-> role, shown |-> "children", nav |-> NoNav]

ProtectedRoute(role, loading, tk, us, loc) ==
  IF loading
  THEN [at |-> loc.path, role |-> role, shown |-> "spinner", nav |-> NoNav]
  ELSE IF ~isAuthenticated(tk, us)
  THEN [at |-> loc.path, role |-> role, shown |-> "nothing",
        nav |-> [path |-> PathLogin, returnUrl |-> encodeURIComponent(loc.path)]]
  ELSE IF role # NoRole /\ us.role # role
  THEN [at |-> loc.path, role |-> role, shown |-> "nothing", nav |-> At(PathRoot)]
  ELSE [at |-> loc.path, role |-> role, shown |-> "children", nav |-> NoNav]

\* The render that follows a state change: the element of the route at loc.
Render(role, loading, tk, us, loc) ==
  IF loc.path \in ProtectedPaths
  THEN LET g == ProtectedRoute(role, loading, tk, us, loc)
       IN /\ lastGuard' = g
          /\ location' = IF g.nav # NoNav THEN g.nav ELSE loc
  ELSE /\ lastGuard' = NoGuard
       /\ location' = loc

(***************************************************************************)
(* The backend's entities and the query cache (@tanstack/react-query as    *)
(* the pages use it).                                                      *)
(***************************************************************************)
Ids == 1..MaxIds

\* The application of the detail and edit pages (useParams id); the reminders
\* and notes of the model are this application's.
AppId == 1

Entities == {"app", "rem", "note"}

\* A reminder's date as describeReminder sees it: past, within two days, later.
Dues == {"past", "soon", "later"}

Unused == [st |-> "unused", sent |-> FALSE, rev |-> 0, due |-> "later"]

\* the query keys of the pages
KeyApplications == "applications"
KeyApplication == "application"
KeyReminders == "reminders-of-application"
KeyRemindersAll == "reminders-all"
KeyNotes == "notes"
NoKey == "none"
Keys ==
  {KeyApplications, KeyApplication, KeyReminders, KeyRemindersAll,
   KeyNotes}

KeyEntity(k) ==
  IF k \in {KeyApplications, KeyApplication} THEN "app"
  ELSE IF k = KeyNotes THEN "note"
  ELSE "rem"

\* "other" stands for the pages whose queries the model does not follow
\* (dashboard, calendar, analytics, profile, settings, the detail page of
\* another application).
Pages ==
  {"list", "detail", "reminders", "add", "edit", "other"}

\* useQuery calls of each page.
PageQueries(pg) ==
  CASE pg = "list" -> {KeyApplications}
    [] pg = "detail" -> {KeyApplication, KeyReminders, KeyNotes}
    [] pg = "reminders" -> {KeyRemindersAll, KeyApplications}
    [] pg = "edit" -> {KeyApplication}
    [] OTHER -> {}

NoQuery == [has |-> FALSE, data |-> {}, stale |-> FALSE, fetching |-> FALSE]

Live(s, e) == {i \in Ids : s[e][i].st = "live"}

Row(s, e, i) ==
  [id |-> i, sent |-> s[e][i].sent, rev |-> s[e][i].rev, due |-> s[e][i].due]

\* getById fails for an application that is gone; the list endpoints answer.
ServerAnswers(s, k) == k = KeyApplication => AppId \in Live(s, "app")

\* What the endpoint behind a query key answers.
ServerAnswer(s, k) ==
  IF k = KeyApplication
  THEN {Row(s, "app", AppId)}
  ELSE {Row(s, KeyEntity(k), i) : i \in Live(s, KeyEntity(k))}

\* queryClient.invalidateQueries({ queryKey }): the matching queries become
\* stale, and those a mounted page observes are fetched again.
invalidateQueries(c, ks, active) ==
  [k \in Keys |->
     IF k \in ks /\ (c[k].has \/ c[k].fetching)
     THEN [c[k] EXCEPT !.stale = TRUE, !.fetching = @ \/ k \in active]
     ELSE c[k]]

\* The kinds of entity share no query key and no invalidation: a behaviour
\* follows the queries of one kind, kd.
Observed(pg, kd) == {k \in PageQueries(pg) : KeyEntity(k) = kd}

\* The pages where a kind has a query or a mutation; the others are alike
\* to a behaviour that follows it, and "other" stands for them.
PagesOf(kd) ==
  CASE kd = "app" -> {"list", "detail", "reminders", "add", "edit"}
    [] kd = "rem" -> {"detail", "reminders"}
    [] kd = "note" -> {"detail"}

Place(pg, kd) == IF pg \in PagesOf(kd) THEN pg ELSE "other"

\* The queries of a page as it mounts (or as the window regains focus):
\* fetched when there is no data or the data is stale.
Mount(c, pg, kd) ==
  [k \in Keys |->
     IF k \in Observed(pg, kd) /\ (~c[k].has \/ c[k].stale)
     THEN [c[k] EXCEPT !.fetching = TRUE]
     ELSE c[k]]

\* A query whose data the page presents as current.
Fresh(k) == cache[k].has /\ ~cache[k].stale /\ ~cache[k].fetching

NoToggle == [key |-> NoKey]

NoForm == [kind |-> "none"]

NoRequest == [api |-> "none"]

NoSettle == [n |-> 0]

\* The delay of useDebouncedValue(searchInput, 400), in units of 200 ms.
DelayTicks == 2

\* window.setTimeout's handle: a timeout due in n units, or none.
Timer(n) == [armed |-> TRUE, left |-> n]

NoTimer == [armed |-> FALSE, left |-> 0]

\* The delay of the redirect after a successful verification (3000 ms), in seconds.
RedirectTicks == 3

\* The cooldown of the resend button, in seconds.
ResendCooldown == 60

\* What the URL may carry as token: none, an empty one, a token.
UrlTokens == {Null, "", "tok"}

\* VerifyEmailPage as it mounts with token t in the URL (e: the router state
\* has an email): useState's initial values, the effect not yet run.
VerifyMounted(t, e) ==
  /\ urlToken = t
  /\ stateEmail = e
  /\ isVerifying = TRUE
  /\ isVerified = FALSE
  /\ verifyError = FALSE
  /\ effectRan = FALSE
  /\ verifying = 0
  /\ redirectTimer = NoTimer
  /\ isResending = FALSE
  /\ resendCooldown = 0
  /\ verifiedFor = 0
  /\ lastResend = "none"

\* The delay of the email check's debounce effect (500 ms), in units of 250 ms.
CheckDelayTicks == 2

\* Calendar days are counted from Sunday 2026-02-01 (day 0), instants in hours
\* from that day's 00:00 UTC. The months around the ones the page displays:
MonthTable ==
  << [name |-> "2026-01", first |-> -31, length |-> 31],
     [name |-> "2026-02", first |-> 0, length |-> 28],
     [name |-> "2026-03", first |-> 28, length |-> 31],
     [name |-> "2026-04", first |-> 59, length |-> 30],
     [name |-> "2026-05", first |-> 89, length |-> 31] >>

MonthOf(day) ==
  CHOOSE m \in 1..Len(MonthTable) :
    /\ MonthTable[m].first <= day
    /\ day < MonthTable[m].first + MonthTable[m].length

\* date-fns on local dates: startOfMonth, endOfMonth, addDays, and startOfWeek
\* and endOfWeek with weekStartsOn 0 (getDay() is 0 on a Sunday).
startOfMonth(day) == MonthTable[MonthOf(day)].first

endOfMonth(day) == MonthTable[MonthOf(day)].first + MonthTable[MonthOf(day)].length - 1

addDays(day, amount) == day + amount

getDay(day) == day % 7

startOfWeek(day) == day - getDay(day)

endOfWeek(day) == startOfWeek(day) + 6

\* The months the page is followed through: February to April 2026.
FirstMonth == 0
LastMonth == 59

\* new Date() as the page mounts: 2026-03-15.
Today == 42

\* Hours ahead of UTC of the browsers the page is followed in.
TimeZones == {-5, 0, 3}

\* ISO 8601 strings: a date alone ("2026-03-01"), a date-time ending in Z
\* (what Date.prototype.toISOString writes), a date-time without an offset.
IsoDate(day) == [form |-> "date", day |-> day, hour |-> 0]

IsoUtc(day, hour) == [form |-> "utc", day |-> day, hour |-> hour]

IsoLocal(day, hour) == [form |-> "local", day |-> day, hour |-> hour]

\* new Date(string): the instant. A date alone is midnight UTC, a date-time
\* without an offset is local time.
NewDate(iso, tz) ==
  CASE iso.form = "date" -> iso.day * 24
    [] iso.form = "utc" -> iso.day * 24 + iso.hour
    [] OTHER -> iso.day * 24 + iso.hour - tz

DateToISOString(instant) == IsoUtc(instant \div 24, instant % 24)

\* format(date, "yyyy-MM-dd"): the local calendar day of the instant, the key
\* written here as the day's number.
format(instant, tz) == (instant + tz) \div 24

\* The while loop of monthMatrix from cursor on: one week of seven days per
\* round, cursor <= end with end the last instant of a Saturday.
RECURSIVE Weeks(_, _)
Weeks(cursor, end) ==
  IF cursor <= end
  THEN <<[i \in 1..7 |-> addDays(cursor, i - 1)]>> \o Weeks(addDays(cursor, 7), end)
  ELSE <<>>

MonthMatrix(month) ==
  Weeks(startOfWeek(startOfMonth(month)), endOfWeek(endOfMonth(month)))

\* The events of eventsByDate: pushEvent under the formatted reminderDate for
\* each reminder, then under the formatted appliedDate for each application.
ReminderEvent(reminder, tz) ==
  [id |-> <<"reminder", reminder.id>>, type |-> "reminder",
   date |-> format(NewDate(reminder.reminderDate, tz), tz)]

ApplicationEvent(application, tz) ==
  [id |-> <<"application", application.id>>, type |-> "application",
   date |-> format(NewDate(application.appliedDate, tz), tz)]

EventsByDate(reminders, apps, tz) ==
  LET rs == [i \in 1..Len(reminders) |-> ReminderEvent(reminders[i], tz)]
      as == [i \in 1..Len(apps) |-> ApplicationEvent(apps[i], tz)]
      all == rs \o as
      keys == {all[i].date : i \in 1..Len(all)}
  IN  [k \in keys |-> SelectSeq(all, LAMBDA e : e.date = k)]

\* CalendarPage as it mounts: this month displayed, neither query answered
\* (reminders ?? [] and applications ?? [] give no event).
CalendarMounted ==
  /\ calTimeZone = 0
  /\ currentMonth = startOfMonth(Today)
  /\ calReminders = [loaded |-> FALSE, rows |-> <<>>]
  /\ calApplications = [loaded |-> FALSE, rows |-> <<>>]
  /\ monthMatrix = MonthMatrix(currentMonth)
  /\ eventsByDate = EventsByDate(<<>>, <<>>, calTimeZone)

\* useMemo's null: no aggregates while there is no data or no row.
NoAnalytics == [computed |-> FALSE, totalApplications |-> 0, active |-> 0,
                statusCounts |-> <<>>, salaryRanges |-> <<>>]

\* AnalyticsPage before its query is answered.
AnalyticsUnloaded ==
  /\ analyticsData = [loaded |-> FALSE, rows |-> <<>>]
  /\ analytics = NoAnalytics

\* Neither page has data yet: the list renders no row, the detail page its
\* loading state.
NoBadge == [shown |-> FALSE, status |-> "", className |-> <<>>]

BadgesUnrendered ==
  /\ listBadges = [loaded |-> FALSE, rows |-> <<>>]
  /\ detailBadge = NoBadge

\* groupedReminders of an empty list.
NoSections == [overdue |-> <<>>, today |-> <<>>, tomorrow |-> <<>>, upcoming |-> <<>>]

\* RemindersListPage as it mounts: no filter, the query loading.
RemindersListMounted ==
  /\ remindersData = [loaded |-> FALSE, rows |-> <<>>]
  /\ statusFilter = "all"
  /\ searchQuery = <<>>
  /\ groupedReminders = NoSections
  /\ remindersView = "skeleton"

\* The application loaded at /dashboard under the Router of main.tsx.
RouterMounted ==
  /\ router = "main"
  /\ history = <<(<<"dashboard">>)>>
  /\ routeElement = "DashboardPage"

\* RegisterPage as it mounts: useState's initial values, no email typed, the
\* debounce effect's first timeout set.
RegisterMounted ==
  /\ email = <<>>
  /\ checkTimer = Timer(CheckDelayTicks)
  /\ emailExists = FALSE
  /\ isCheckingEmail = FALSE
  /\ isSubmitting = FALSE
  /\ checks = <<>>
  /\ registers = 0
  /\ emailUnchangedFor = 0
  /\ lastReport = "none"

(***************************************************************************)
(* The settings page's preferences (pages/SettingsPage.tsx 13-61).         *)
(***************************************************************************)
PreferenceKeys == {"emailNotifications", "reminderPush", "weeklyDigest", "autoArchive"}

defaultPreferences ==
  [emailNotifications |-> TRUE, reminderPush |-> TRUE, weeklyDigest |-> FALSE,
   autoArchive |-> FALSE]

\* JSON.stringify of a Preferences object: the values in key order.
PreferencesStringify(p) ==
  <<"{", p.emailNotifications, p.reminderPush, p.weeklyDigest, p.autoArchive, "}">>

\* JSON.parse of what PreferencesStringify wrote.
PreferencesParse(s) ==
  [emailNotifications |-> s[2], reminderPush |-> s[3], weeklyDigest |-> s[4],
   autoArchive |-> s[5]]

\* The mount effect (36-45): { ...defaultPreferences, ...JSON.parse(saved) }.
LoadPreferences(saved) ==
  IF saved # NoItem
  THEN [k \in PreferenceKeys |->
          IF k \in DOMAIN PreferencesParse(saved)
          THEN PreferencesParse(saved)[k] ELSE defaultPreferences[k]]
  ELSE defaultPreferences

\* The settings page is mounted: the route's guard shows it.
SettingsShown == location.path = PathSettings /\ lastGuard.shown = "children"

\* The settings page's state across a step of the session: kept while the page
\* stays mounted, loaded from storage when it mounts, gone when it is left.
SettingsPageFollows ==
  /\ preferences' =
       IF location'.path = PathSettings /\ lastGuard'.shown = "children"
       THEN IF SettingsShown THEN preferences ELSE LoadPreferences(lsPrefs)
       ELSE defaultPreferences
  /\ UNCHANGED lsPrefs

\* No form is open and nothing has been submitted; no preferences are stored.
FormsClosed ==
  /\ form = NoForm
  /\ lastRequest = NoRequest
  /\ lsPrefs = NoItem
  /\ preferences = defaultPreferences
  /\ RegisterMounted
  /\ VerifyMounted(Null, FALSE)
  /\ AnalyticsUnloaded
  /\ CalendarMounted
  /\ BadgesUnrendered
  /\ RemindersListMounted
  /\ RouterMounted

\* The list page's state as it mounts, its query not yet answered; the mount
\* effect of useDebouncedValue has set a timeout for the initial value.
FilterEmpty ==
  /\ applications = [loaded |-> FALSE, rows |-> <<>>]
  /\ searchInput = <<>>
  /\ debouncedSearch = <<>>
  /\ selectedStatuses = <<>>
  /\ salaryMin = <<>>
  /\ salaryMax = <<>>
  /\ filteredApplications = <<>>
  /\ timer = Timer(DelayTicks)
  /\ unchangedFor = 0

CacheEmpty ==
  /\ srv = [e \in Entities |-> [i \in Ids |->
              IF i = 1
              THEN [st |-> "live", sent |-> FALSE, rev |-> 0, due |-> "later"]
              ELSE Unused]]
  /\ cache = [k \in Keys |-> NoQuery]
  /\ page = "other"
  /\ pending = {}
  /\ deletedFrom = [k \in Keys |-> {}]
  /\ awaiting = NoToggle
  /\ issued = 0
  /\ followed = "app"
  /\ lastSettled = NoSettle

(***************************************************************************)
(* The API client's interceptors (components/ProtectedRoute.tsx 74-101).   *)
(***************************************************************************)
\* Request interceptor: the Authorization header put on a request.
RequestInterceptorFromState(storedToken) ==
  IF Truthy(token) THEN Bearer(token) ELSE NoHeader

RequestInterceptor(storedToken) ==
  IF Truthy(storedToken) THEN Bearer(storedToken) ELSE NoHeader

\* Response interceptor: what a response with this status leaves in storage
\* and in window.location.href, and whether the caller's promise is rejected.
ResponseInterceptorKeepsUser(status, st) ==
  IF status = 200
  THEN [st EXCEPT !.rejected = FALSE]
  ELSE IF status = 401
  THEN [lsToken |-> Null, lsUser |-> st.lsUser, unloadTo |-> PathLogin, rejected |-> TRUE]
  ELSE [st EXCEPT !.rejected = TRUE]

ResponseInterceptor(status, st) ==
  IF status = 200
  THEN [st EXCEPT !.rejected = FALSE]
  ELSE IF status = 401
  THEN [lsToken |-> Null, lsUser |-> NoItem, unloadTo |-> PathLogin, rejected |-> TRUE]
  ELSE [st EXCEPT !.rejected = TRUE]

(***************************************************************************)
(* AuthProvider (contexts/AuthContext.tsx).                                *)
(***************************************************************************)
\* logout(): the state and the storage it leaves.
logout == [user |-> NullUser, token |-> Null, lsToken |-> Null, lsUser |-> NoItem]

RequestKinds == {"login", "updateProfile", "query"}

\* useState initial values of AccountDeletionDialog, and of the page's open flag.
DialogUnmounted ==
  /\ dlgOpen = FALSE
  /\ step = 1
  /\ acknowledged = FALSE
  /\ emailInput = <<>>
  /\ isDeleting = FALSE

\* The dialog is unmounted with its page: a later mount starts from the initial values.
UnmountDialog ==
  /\ dlgOpen' = FALSE
  /\ step' = 1
  /\ acknowledged' = FALSE
  /\ emailInput' = <<>>
  /\ isDeleting' = FALSE

Init ==
  /\ lsToken = Null
  /\ lsUser = NoItem
  /\ token = Null
  /\ user = NullUser
  /\ isLoading = TRUE
  /\ location = At(PathLogin)
  /\ unloadTo = NoPath
  /\ requiredRole = NoRole
  /\ lastGuard = NoGuard
  /\ inflight = {}
  /\ sessionToken = Null
  /\ sessionUser = NullUser
  /\ restored = FALSE
  /\ lastResponse = NoResponse
  /\ DialogUnmounted
  /\ CacheEmpty
  /\ FilterEmpty
  /\ FormsClosed

\* The browser loads the page at path p: a fresh AuthProvider, nothing in flight.
PageLoad(p, role) ==
  /\ unloadTo \in {NoPath, p}
  /\ token' = Null
  /\ user' = NullUser
  /\ isLoading' = TRUE
  /\ inflight' = {}
  /\ unloadTo' = NoPath
  /\ requiredRole' = role
  /\ Render(role, TRUE, Null, NullUser, At(p))
  /\ lastResponse' = NoResponse
  /\ UnmountDialog
  /\ UNCHANGED <<lsToken, lsUser, sessionToken, sessionUser>>
  /\ restored' = FALSE
  /\ UNCHANGED restVars
  /\ SettingsPageFollows

\* A mount effect that ends loading without reading local storage.
MountEffectWithoutRestore ==
  /\ isLoading
  /\ UNCHANGED <<token, user, lsToken, lsUser>>
  /\ isLoading' = FALSE
  /\ Render(requiredRole, FALSE, token', user', location)
  /\ lastResponse' = NoResponse
  /\ UNCHANGED <<unloadTo, requiredRole, inflight, sessionToken, sessionUser>>
  /\ restored' = FALSE
  /\ UNCHANGED <<dlgVars, restVars>>
  /\ SettingsPageFollows

\* The mount effect's checkAuth (AuthContext.tsx 13-33).
MountEffect ==
  /\ isLoading
  /\ IF Truthy(lsToken) /\ lsUser # NoItem
     THEN IF JSONParses(lsUser)
          THEN /\ token' = lsToken
               /\ user' = JSONParse(lsUser)
               /\ UNCHANGED <<lsToken, lsUser>>
          ELSE \* setToken ran, JSON.parse threw: the catch removes both keys
               /\ token' = lsToken
               /\ user' = user
               /\ lsToken' = Null
               /\ lsUser' = NoItem
     ELSE UNCHANGED <<token, user, lsToken, lsUser>>
  /\ isLoading' = FALSE
  /\ Render(requiredRole, FALSE, token', user', location)
  /\ lastResponse' = NoResponse
  /\ UNCHANGED <<unloadTo, requiredRole, inflight, sessionToken, sessionUser>>
  /\ restored' = (Truthy(lsToken) /\ lsUser # NoItem /\ JSONParses(lsUser))
  /\ UNCHANGED <<dlgVars, restVars>>
  /\ SettingsPageFollows

\* A client-side navigation to p (a link, the sidebar, the address handled by the router).
Navigate(p, role) ==
  /\ ~isLoading
  /\ requiredRole' = role
  /\ Render(role, isLoading, token, user, At(p))
  /\ lastResponse' = NoResponse
  /\ UNCHANGED <<lsToken, lsUser, token, user, isLoading, unloadTo, inflight, sessionToken, sessionUser, restored>>
  /\ UNCHANGED <<dlgVars, restVars>>
  /\ SettingsPageFollows

\* <Route path="/" element={<Navigate to="/dashboard" replace />} /> (App.tsx 106).
RootRedirect ==
  /\ location.path = PathRoot
  /\ requiredRole' = NoRole
  /\ Render(NoRole, isLoading, token, user, At(PathDashboard))
  /\ lastResponse' = NoResponse
  /\ UNCHANGED <<lsToken, lsUser, token, user, isLoading, unloadTo, inflight, sessionToken, sessionUser, restored>>
  /\ UNCHANGED <<dlgVars, restVars>>
  /\ SettingsPageFollows

\* Layout.handleLogout: logout(); navigate("/login").
HandleLogout ==
  /\ lastGuard.shown = "children"
  /\ user' = logout.user
  /\ token' = logout.token
  /\ lsToken' = logout.lsToken
  /\ lsUser' = logout.lsUser
  /\ sessionToken' = Null
  /\ sessionUser' = NullUser
  /\ UNCHANGED restored
  /\ requiredRole' = NoRole
  /\ Render(NoRole, isLoading, token', user', At(PathLogin))
  /\ lastResponse' = NoResponse
  /\ UNCHANGED <<isLoading, unloadTo, inflight>>
  /\ UNCHANGED <<dlgVars, restVars>>
  /\ SettingsPageFollows

\* The API client sends a request: the request interceptor reads local storage.
SendRequest(kind) ==
  /\ ~isLoading
  /\ kind # "login" => lastGuard.shown = "children"
  /\ kind = "updateProfile" => user # NullUser
  /\ Cardinality(inflight) < MaxInFlight
  /\ inflight' = inflight \cup
       {[kind |-> kind, uid |-> IF kind = "updateProfile" THEN user.id ELSE 0, n |-> 0,
         auth |-> RequestInterceptor(lsToken), session |-> sessionToken]}
  /\ lastResponse' = NoResponse
  /\ UNCHANGED <<lsToken, lsUser, token, user, isLoading, location, unloadTo,
                 requiredRole, lastGuard, sessionToken, sessionUser, restored>>
  /\ UNCHANGED <<dlgVars, restVars>>
  /\ SettingsPageFollows

\* A request settles with a status: the response interceptor, then the caller's
\* continuation (login in AuthContext.tsx 35-48, onProfileSubmit, a query).
Respond(r, status) ==
  /\ r \in inflight
  /\ r.kind \in RequestKinds
  /\ LET before == [lsToken |-> lsToken, lsUser |-> lsUser, unloadTo |-> unloadTo,
                    rejected |-> FALSE]
         st == ResponseInterceptor(status, before)
     IN /\ \/ /\ r.kind = "login"
              /\ ~st.rejected
              /\ \E newToken \in Tokens, newUser \in Users :
                   /\ token' = newToken
                   /\ user' = newUser
                   /\ lsToken' = newToken
                   /\ lsUser' = JSONStringify(newUser)
                   /\ sessionToken' = newToken
                   /\ sessionUser' = newUser
              /\ UNCHANGED requiredRole
              /\ Render(requiredRole, isLoading, token', user', location)
           \/ /\ r.kind = "updateProfile"
              /\ ~st.rejected
              /\ \E updatedUser \in {u \in Users : u.id = r.uid} :
                   /\ user' = updatedUser
                   /\ lsUser' = JSONStringify(updatedUser)
                   /\ sessionUser' = updatedUser
              /\ lsToken' = st.lsToken
              /\ requiredRole' = NoRole
              /\ Render(NoRole, isLoading, token, user', At(PathProfile))
              /\ UNCHANGED <<token, sessionToken>>
           \/ /\ r.kind = "query" \/ st.rejected
              /\ lsToken' = st.lsToken
              /\ lsUser' = st.lsUser
              /\ sessionToken' = IF status = 401 THEN Null ELSE sessionToken
              /\ sessionUser' = IF status = 401 THEN NullUser ELSE sessionUser
              /\ UNCHANGED <<token, user, requiredRole, lastGuard, location>>
        /\ unloadTo' = st.unloadTo
        /\ lastResponse' =
             [status |-> status, rejected |-> st.rejected,
              before |-> <<lsToken, lsUser, unloadTo>>]
  /\ inflight' = inflight \ {r}
  /\ UNCHANGED <<isLoading, restored>>
  /\ UNCHANGED <<dlgVars, restVars>>
  /\ SettingsPageFollows

Next ==
  \/ \E p \in OpenedPaths, role \in RequiredRoles : PageLoad(p, role)
  \/ \E p \in PublicPaths : PageLoad(p, NoRole)
  \/ MountEffect
  \/ \E p \in OpenedPaths, role \in RequiredRoles : Navigate(p, role)
  \/ \E p \in PublicPaths : Navigate(p, NoRole)
  \/ RootRedirect
  \/ HandleLogout
  \/ \E kind \in RequestKinds : SendRequest(kind)
  \/ \E r \in inflight, status \in Statuses : Respond(r, status)

Spec == Init /\ [][Next]_vars

\* What the two keys of local storage can hold when the page is opened: a
\* session an earlier visit stored, one key without the other, an empty token,
\* a user item that is not JSON.
StoredTokens == {Null, "", "t1"}
StoredUsers == {NoItem, <<"{">>} \cup {JSONStringify(u) : u \in Users}

\* Local storage is written from outside the page (an earlier visit, another
\* tab, the developer tools).
StorageEdited(tk, item) ==
  /\ <<tk, item>> # <<lsToken, lsUser>>
  /\ lsToken' = tk
  /\ lsUser' = item
  /\ UNCHANGED <<token, user, isLoading, location, unloadTo, requiredRole, lastGuard,
                 inflight, sessionToken, sessionUser, restored, lastResponse>>
  /\ UNCHANGED <<dlgVars, restVars, prefVars>>

\* The provider's mount followed for any content of local storage. The mount
\* effect runs after the first commit and checkAuth has no await before its
\* finally block, so a pending effect always runs.
NextRestore ==
  \/ \E p \in OpenedPaths, role \in RequiredRoles : PageLoad(p, role)
  \/ \E p \in PublicPaths : PageLoad(p, NoRole)
  \/ MountEffect
  \/ \E p \in OpenedPaths, role \in RequiredRoles : Navigate(p, role)
  \/ \E p \in PublicPaths : Navigate(p, NoRole)
  \/ HandleLogout
  \/ \E tk \in StoredTokens, item \in StoredUsers : StorageEdited(tk, item)

SpecRestore == Init /\ [][NextRestore]_vars /\ WF_vars(MountEffect)

(***************************************************************************)
(* AccountDeletionDialog (components/account/AccountDeletionDialog.tsx).   *)
(***************************************************************************)
\* What can be typed into the email field.
EmailInputs ==
  { <<>>, <<"a", "b">>, <<" ", "A", "B", " ">>, <<"a">>, <<"d">>, <<"C">>, <<"c", " ", "c">> }

toLowerCase(str) ==
  [i \in 1..Len(str) |->
     CASE str[i] = "A" -> "a"
       [] str[i] = "B" -> "b"
       [] str[i] = "C" -> "c"
       [] OTHER -> str[i]]

RECURSIVE trimStart(_)
trimStart(str) ==
  IF str # <<>> /\ Head(str) = " " THEN trimStart(Tail(str)) ELSE str

RECURSIVE trimEnd(_)
trimEnd(str) ==
  IF str # <<>> /\ str[Len(str)] = " " THEN trimEnd(SubSeq(str, 1, Len(str) - 1)) ELSE str

trim(str) == trimEnd(trimStart(str))

\* canProceed without the identity check of step 2.
canProceedAnyEmail(st, ack, input, us) ==
  IF st = 1 THEN ack ELSE TRUE

\* canProceed (65-73); user?.email is undefined without a user.
canProceed(st, ack, input, us) ==
  IF st = 1 THEN ack
  ELSE IF st = 2 THEN us # NullUser /\ toLowerCase(trim(input)) = toLowerCase(us.email)
  ELSE TRUE

\* The settings page's "Delete account" button: setDeletionDialogOpen(true).
OpenDialog ==
  /\ lastGuard.shown = "children"
  /\ location.path = PathSettings
  /\ ~dlgOpen
  /\ dlgOpen' = TRUE
  /\ lastResponse' = NoResponse
  /\ UNCHANGED restVars
  /\ UNCHANGED <<lsToken, lsUser, token, user, isLoading, location, unloadTo, requiredRole,
                 lastGuard, inflight, sessionToken, sessionUser, restored, step, acknowledged, emailInput, isDeleting>>
  /\ SettingsPageFollows

\* onOpenChange(false) (Cancel, Escape, the overlay), then the effect of 55-63.
CloseDialog ==
  /\ dlgOpen
  /\ UnmountDialog
  /\ lastResponse' = NoResponse
  /\ UNCHANGED restVars
  /\ UNCHANGED <<lsToken, lsUser, token, user, isLoading, location, unloadTo, requiredRole,
                 lastGuard, inflight, sessionToken, sessionUser, restored>>
  /\ SettingsPageFollows

\* The checkbox of step 1 (126-131).
SetAcknowledged(checked) ==
  /\ dlgOpen
  /\ step = 1
  /\ acknowledged' = checked
  /\ lastResponse' = NoResponse
  /\ UNCHANGED restVars
  /\ UNCHANGED <<lsToken, lsUser, token, user, isLoading, location, unloadTo, requiredRole,
                 lastGuard, inflight, sessionToken, sessionUser, restored, dlgOpen, step, emailInput, isDeleting>>
  /\ SettingsPageFollows

\* The input of step 2 (142-147).
SetEmailInput(value) ==
  /\ dlgOpen
  /\ step = 2
  /\ emailInput' = value
  /\ lastResponse' = NoResponse
  /\ UNCHANGED restVars
  /\ UNCHANGED <<lsToken, lsUser, token, user, isLoading, location, unloadTo, requiredRole,
                 lastGuard, inflight, sessionToken, sessionUser, restored, dlgOpen, step, acknowledged, isDeleting>>
  /\ SettingsPageFollows

\* The number that tells a new user-delete request from those in flight.
FreshN ==
  CHOOSE k \in 0..MaxInFlight :
    /\ \A r \in inflight : r.kind = "deleteUser" => r.n # k
    /\ \A j \in 0..(k - 1) : \E r \in inflight : r.kind = "deleteUser" /\ r.n = j

\* handleNext (75-93) up to its await, from the button of 171-176.
HandleNext ==
  /\ dlgOpen
  /\ canProceed(step, acknowledged, emailInput, user)
  /\ ~isDeleting
  /\ IF step < 3
     THEN /\ step' = step + 1
          /\ UNCHANGED <<isDeleting, inflight>>
     ELSE IF user = NullUser
     THEN UNCHANGED <<step, isDeleting, inflight>>
     ELSE /\ Cardinality(inflight) < MaxInFlight
          /\ isDeleting' = TRUE
          /\ inflight' = inflight \cup
               {[kind |-> "deleteUser", uid |-> user.id, n |-> FreshN,
                 auth |-> RequestInterceptor(lsToken), session |-> sessionToken]}
          /\ UNCHANGED step
  /\ lastResponse' = NoResponse
  /\ UNCHANGED restVars
  /\ UNCHANGED <<lsToken, lsUser, token, user, isLoading, location, unloadTo, requiredRole,
                 lastGuard, sessionToken, sessionUser, restored, dlgOpen, acknowledged, emailInput>>
  /\ SettingsPageFollows

\* The user-delete request settles: the response interceptor, then the rest of
\* handleNext (85-92); the dialog is unmounted when the page is left.
DeleteSettled(r, status) ==
  /\ r \in inflight
  /\ r.kind = "deleteUser"
  /\ LET before == [lsToken |-> lsToken, lsUser |-> lsUser, unloadTo |-> unloadTo,
                    rejected |-> FALSE]
         st == ResponseInterceptor(status, before)
     IN /\ IF st.rejected
           THEN /\ lsToken' = st.lsToken
                /\ lsUser' = st.lsUser
                /\ unloadTo' = st.unloadTo
                /\ sessionToken' = IF status = 401 THEN Null ELSE sessionToken
                /\ sessionUser' = IF status = 401 THEN NullUser ELSE sessionUser
                /\ isDeleting' = FALSE
                /\ UNCHANGED <<token, user, requiredRole, lastGuard, location,
                               dlgOpen, step, acknowledged, emailInput>>
           ELSE /\ user' = logout.user
                /\ token' = logout.token
                /\ lsToken' = logout.lsToken
                /\ lsUser' = logout.lsUser
                /\ sessionToken' = Null
                /\ sessionUser' = NullUser
                /\ unloadTo' = PathRegister
                /\ Render(requiredRole, isLoading, token', user', location)
                /\ UNCHANGED requiredRole
                /\ IF location' = location
                   THEN /\ isDeleting' = FALSE
                        /\ UNCHANGED <<dlgOpen, step, acknowledged, emailInput>>
                   ELSE UnmountDialog
        /\ lastResponse' =
             [status |-> status, rejected |-> st.rejected,
              before |-> <<lsToken, lsUser, unloadTo>>]
  /\ inflight' = inflight \ {r}
  /\ UNCHANGED <<isLoading, restored>>
  /\ UNCHANGED restVars
  /\ SettingsPageFollows

\* The session of a user who has signed in and stands on a protected page.
SignedInAt(u, path) ==
  /\ user = u
  /\ lsUser = JSONStringify(u)
  /\ token = "t1"
  /\ lsToken = "t1"
  /\ sessionToken = "t1"
  /\ sessionUser = u
  /\ restored = FALSE
  /\ isLoading = FALSE
  /\ location = At(path)
  /\ unloadTo = NoPath
  /\ requiredRole = NoRole
  /\ lastGuard = ProtectedRoute(NoRole, FALSE, token, user, At(path))
  /\ inflight = {}
  /\ lastResponse = NoResponse

\* A signed-in user on the settings page, the dialog closed.
InitDeletion ==
  /\ \E u \in Users : SignedInAt(u, PathSettings)
  /\ DialogUnmounted
  /\ CacheEmpty
  /\ FilterEmpty
  /\ FormsClosed

NextDeletion ==
  \/ OpenDialog
  \/ CloseDialog
  \/ \E checked \in BOOLEAN : SetAcknowledged(checked)
  \/ \E value \in EmailInputs : SetEmailInput(value)
  \/ HandleNext
  \/ \E r \in inflight, status \in Statuses : DeleteSettled(r, status)
  \/ \E p \in {unloadTo} \ {NoPath} : PageLoad(p, NoRole)
  \/ MountEffect

SpecDeletion == InitDeletion /\ [][NextDeletion]_vars

(***************************************************************************)
(* The pages' mutations and the queries they invalidate.                   *)
(***************************************************************************)
\* renderReminderCard's badge on the reminders page.
ListBadge(reminder) == IF reminder.sent THEN "Completed" ELSE "Pending"

\* The tone describeReminder gives a reminder on the detail page.
describeReminder(reminder) ==
  IF reminder.sent THEN "completed"
  ELSE IF reminder.due = "past" THEN "overdue"
  ELSE IF reminder.due = "soon" THEN "soon"
  ELSE "upcoming"

\* The detail page's badge for a tone.
DetailBadge(tone) ==
  IF tone = "overdue" THEN "Overdue"
  ELSE IF tone = "soon" THEN "Due soon"
  ELSE IF tone = "completed" THEN "Completed"
  ELSE "Upcoming"

\* The badge the page of query k shows for a reminder.
Badge(k, reminder) ==
  IF k = KeyRemindersAll
  THEN ListBadge(reminder)
  ELSE DetailBadge(describeReminder(reminder))

\* A request that changes the server's data, with what its caller does on
\* success: the keys it invalidates and the page it navigates to.
Mutation(site, entity, op, id, sent, due, inval, from, nav) ==
  [n |-> 0, site |-> site, entity |-> entity, op |-> op, id |-> id,
   sent |-> sent, due |-> due, inval |-> inval, from |-> from, nav |-> nav]

\* ApplicationsListPage
handleDelete(id) ==
  Mutation("list.handleDelete", "app", "delete", id, FALSE, "later",
           {}, KeyApplications, "stay")

\* AddApplicationPage
AddCreateMutation ==
  Mutation("add.createMutation", "app", "create", 0, FALSE, "later",
           {}, NoKey, "other")

\* EditApplicationPage
EditUpdateMutation ==
  Mutation("edit.updateMutation", "app", "update", AppId, FALSE, "later",
           {}, NoKey, "detail")

\* ApplicationDetailPage
deleteApplication ==
  Mutation("detail.deleteApplication", "app", "delete", AppId, FALSE, "later",
           {}, NoKey, "list")

createReminderMutation ==
  Mutation("detail.createReminderMutation", "rem", "create", 0, FALSE, "later",
           {KeyReminders}, KeyReminders, "stay")

updateReminderMutation(reminder) ==
  Mutation("detail.updateReminderMutation", "rem", "update", reminder.id,
           reminder.sent, reminder.due, {KeyReminders}, KeyReminders, "stay")

toggleReminderSentMutationSameFlag(reminder) ==
  Mutation("detail.toggleReminderSentMutation", "rem", "toggle", reminder.id,
           reminder.sent, reminder.due, {KeyReminders}, KeyReminders, "stay")

toggleReminderSentMutation(reminder) ==
  Mutation("detail.toggleReminderSentMutation", "rem", "toggle", reminder.id,
           ~reminder.sent, reminder.due, {KeyReminders}, KeyReminders, "stay")

deleteReminderMutation(id) ==
  Mutation("detail.deleteReminderMutation", "rem", "delete", id, FALSE, "later",
           {KeyReminders}, KeyReminders, "stay")

\* A save that overwrites the first note instead of adding one.
createNoteMutationInPlace ==
  Mutation("detail.createNoteMutation", "note", "update", AppId, FALSE, "later",
           {KeyNotes}, KeyNotes, "stay")

createNoteMutation ==
  Mutation("detail.createNoteMutation", "note", "create", 0, FALSE, "later",
           {KeyNotes}, KeyNotes, "stay")

deleteNoteMutation(id) ==
  Mutation("detail.deleteNoteMutation", "note", "delete", id, FALSE, "later",
           {KeyNotes}, KeyNotes, "stay")

\* RemindersListPage
RemindersCreateMutation ==
  Mutation("reminders.createMutation", "rem", "create", 0, FALSE, "later",
           {KeyRemindersAll}, KeyRemindersAll, "stay")

RemindersUpdateMutation(reminder) ==
  Mutation("reminders.updateMutation", "rem", "update", reminder.id,
           reminder.sent, reminder.due, {KeyRemindersAll}, KeyRemindersAll,
           "stay")

RemindersDeleteMutation(id) ==
  Mutation("reminders.deleteMutation", "rem", "delete", id, FALSE, "later",
           {KeyRemindersAll}, KeyRemindersAll, "stay")

markCompleteMutation(reminder) ==
  Mutation("reminders.markCompleteMutation", "rem", "toggle", reminder.id,
           ~reminder.sent, reminder.due, {KeyRemindersAll}, KeyRemindersAll,
           "stay")

\* The rows the page of query k shows.
Shown(k) == IF cache[k].has THEN cache[k].data ELSE {}

\* The page has the data of query k (taken as given for a kind not followed).
Loaded(k) == KeyEntity(k) # followed \/ cache[k].has

\* mutate(): the request leaves; a sent-toggle notes the badge it was clicked on.
Send(m) ==
  /\ m.entity = followed
  /\ Cardinality(pending) < MaxPending
  /\ issued < MaxMutations
  /\ issued' = issued + 1
  /\ pending' = pending \cup {[m EXCEPT !.n = issued + 1]}
  /\ awaiting' =
       IF m.op = "toggle"
       THEN [key |-> m.from, id |-> m.id,
             before |-> Badge(m.from, CHOOSE r \in Shown(m.from) : r.id = m.id),
             n |-> issued + 1, outcome |-> "pending", refetched |-> FALSE]
       ELSE awaiting
  /\ UNCHANGED <<srv, cache, page, deletedFrom, followed>>
  /\ lastSettled' = NoSettle
  /\ UNCHANGED notCacheVars

\* Clicks of the pages, on the rows they show.
ListDelete ==
  /\ page = "list"
  /\ \E row \in Shown(KeyApplications) : Send(handleDelete(row.id))

AddSubmit ==
  /\ page = "add"
  /\ Send(AddCreateMutation)

EditSubmit ==
  /\ page = "edit"
  /\ Loaded(KeyApplication)
  /\ Send(EditUpdateMutation)

DetailDeleteApplication ==
  /\ page = "detail"
  /\ Loaded(KeyApplication)
  /\ Send(deleteApplication)

DetailCreateReminder ==
  /\ page = "detail"
  /\ Loaded(KeyApplication)
  /\ Send(createReminderMutation)

DetailUpdateReminder ==
  /\ page = "detail"
  /\ Loaded(KeyApplication)
  /\ \E row \in Shown(KeyReminders) : Send(updateReminderMutation(row))

DetailToggleReminder ==
  /\ page = "detail"
  /\ Loaded(KeyApplication)
  /\ \E row \in Shown(KeyReminders) : Send(toggleReminderSentMutation(row))

DetailDeleteReminder ==
  /\ page = "detail"
  /\ Loaded(KeyApplication)
  /\ \E row \in Shown(KeyReminders) : Send(deleteReminderMutation(row.id))

DetailCreateNote ==
  /\ page = "detail"
  /\ Loaded(KeyApplication)
  /\ Send(createNoteMutation)

DetailDeleteNote ==
  /\ page = "detail"
  /\ Loaded(KeyApplication)
  /\ \E row \in Shown(KeyNotes) : Send(deleteNoteMutation(row.id))

RemindersCreate ==
  /\ page = "reminders"
  /\ followed = "app" => \E app \in Shown(KeyApplications) : app.id = AppId
  /\ Send(RemindersCreateMutation)

RemindersUpdate ==
  /\ page = "reminders"
  /\ \E row \in Shown(KeyRemindersAll) : Send(RemindersUpdateMutation(row))

RemindersDelete ==
  /\ page = "reminders"
  /\ \E row \in Shown(KeyRemindersAll) : Send(RemindersDeleteMutation(row.id))

RemindersMarkComplete ==
  /\ page = "reminders"
  /\ \E row \in Shown(KeyRemindersAll) : Send(markCompleteMutation(row))

\* The backend: a create takes the next unused id, the other requests need
\* their target to exist.
FreeIds(s, e) == {i \in Ids : s[e][i].st = "unused"}

NextId(s, e) == CHOOSE i \in FreeIds(s, e) : \A j \in FreeIds(s, e) : i <= j

ServerAccepts(s, m) ==
  IF m.op = "create"
  THEN FreeIds(s, m.entity) # {}
  ELSE m.id \in Live(s, m.entity)

Target(s, m) == IF m.op = "create" THEN NextId(s, m.entity) ELSE m.id

ServerApply(s, m) ==
  LET e == m.entity
      i == Target(s, m)
  IN  CASE m.op = "create" ->
             [s EXCEPT ![e][i] =
                [st |-> "live", sent |-> FALSE, rev |-> 0, due |-> m.due]]
        [] m.op = "update" ->
             [s EXCEPT ![e][i].rev = @ + 1]
        [] m.op = "toggle" ->
             [s EXCEPT ![e][i].sent = m.sent]
        [] m.op = "delete" ->
             [s EXCEPT ![e][i] = [Unused EXCEPT !.st = "deleted"]]

\* A toast of sonner.
Toast(tone, text) == [tone |-> tone, text |-> text]

\* What the handlers of each mutation say and do besides invalidating and
\* navigating: the success toast ("" when there is none), the error toast, and
\* whether onSuccess resets and closes the page's dialog.
Handlers(site) ==
  CASE site = "list.handleDelete" ->
         [success |-> "Application deleted",
          error |-> "Failed to delete application", closes |-> FALSE]
    [] site = "add.createMutation" ->
         [success |-> "Application created successfully!",
          error |-> "Failed to create application", closes |-> FALSE]
    [] site = "edit.updateMutation" ->
         [success |-> "Application updated successfully!",
          error |-> "Failed to update application", closes |-> FALSE]
    [] site = "detail.deleteApplication" ->
         [success |-> "Application deleted",
          error |-> "Failed to delete application", closes |-> FALSE]
    [] site \in {"detail.createReminderMutation", "reminders.createMutation"} ->
         [success |-> "Reminder created",
          error |-> "Failed to create reminder", closes |-> TRUE]
    [] site \in {"detail.updateReminderMutation", "reminders.updateMutation"} ->
         [success |-> "Reminder updated",
          error |-> "Failed to update reminder", closes |-> TRUE]
    [] site \in {"detail.toggleReminderSentMutation",
                 "reminders.markCompleteMutation"} ->
         [success |-> "", error |-> "Failed to update reminder", closes |-> FALSE]
    [] site \in {"detail.deleteReminderMutation", "reminders.deleteMutation"} ->
         [success |-> "Reminder deleted",
          error |-> "Failed to delete reminder", closes |-> FALSE]
    [] site = "detail.createNoteMutation" ->
         [success |-> "Note created",
          error |-> "Failed to create note", closes |-> TRUE]
    [] site = "detail.deleteNoteMutation" ->
         [success |-> "Note deleted",
          error |-> "Failed to delete note", closes |-> FALSE]

\* onSuccess (or the code after the await): what it shows, invalidates, closes
\* and where it navigates.
onSuccess(m) ==
  [toasts |-> IF Handlers(m.site).success = ""
              THEN <<>> ELSE <<Toast("success", Handlers(m.site).success)>>,
   inval |-> m.inval, closes |-> Handlers(m.site).closes, nav |-> m.nav]

\* An onError that shows nothing.
onErrorSilent(m) ==
  [toasts |-> <<>>, inval |-> {}, closes |-> FALSE, nav |-> "stay"]

\* onError (or the catch block): a toast and nothing else.
onError(m) ==
  [toasts |-> <<Toast("error", Handlers(m.site).error)>>,
   inval |-> {}, closes |-> FALSE, nav |-> "stay"]

\* A mutation settles: on success the server's data changes; then the caller's
\* handler for the outcome runs.  useMutation does not retry (App.tsx 25-31
\* sets no mutation defaults), so the request is not sent again.
Settle(m, ok) ==
  /\ m \in pending
  /\ pending' = pending \ {m}
  /\ LET fx == IF ok THEN onSuccess(m) ELSE onError(m)
     IN  /\ page' = IF fx.nav = "stay" THEN page ELSE Place(fx.nav, followed)
         /\ cache' =
              LET c == invalidateQueries(cache, fx.inval, Observed(page, followed))
              IN  IF fx.nav = "stay" THEN c ELSE Mount(c, fx.nav, followed)
         /\ lastSettled' =
              [n |-> m.n, site |-> m.site, ok |-> ok, toasts |-> fx.toasts,
               closes |-> fx.closes]
  /\ IF ok
     THEN /\ ServerAccepts(srv, m)
          /\ srv' = ServerApply(srv, m)
          /\ deletedFrom' =
               IF m.op = "delete" /\ m.from # NoKey
               THEN [deletedFrom EXCEPT ![m.from] = @ \cup {m.id}]
               ELSE deletedFrom
          /\ awaiting' =
               IF awaiting = NoToggle THEN awaiting
               ELSE IF awaiting.n = m.n THEN [awaiting EXCEPT !.outcome = "ok"]
               ELSE IF m.entity = "rem" /\ Target(srv, m) = awaiting.id
                    THEN NoToggle
               ELSE awaiting
     ELSE /\ awaiting' =
               IF awaiting # NoToggle /\ awaiting.n = m.n
               THEN [awaiting EXCEPT !.outcome = "failed"]
               ELSE awaiting
          /\ UNCHANGED <<srv, deletedFrom>>
  /\ UNCHANGED <<issued, followed>>
  /\ UNCHANGED notCacheVars

\* A query's fetch comes back.
FetchDone(k, ok) ==
  /\ cache[k].fetching
  /\ IF ok
     THEN /\ ServerAnswers(srv, k)
          /\ cache' = [cache EXCEPT ![k] =
               [has |-> TRUE, data |-> ServerAnswer(srv, k),
                stale |-> FALSE, fetching |-> FALSE]]
          /\ awaiting' =
               IF awaiting # NoToggle /\ awaiting.key = k /\ awaiting.outcome = "ok"
               THEN [awaiting EXCEPT !.refetched = TRUE]
               ELSE awaiting
     ELSE /\ cache' = [cache EXCEPT ![k].fetching = FALSE]
          /\ UNCHANGED awaiting
  /\ UNCHANGED <<srv, page, pending, deletedFrom, issued, followed>>
  /\ lastSettled' = NoSettle
  /\ UNCHANGED notCacheVars

\* staleTime passes for a query.
StaleTimeElapsed(k) ==
  /\ cache[k].has
  /\ ~cache[k].stale
  /\ cache' = [cache EXCEPT ![k].stale = TRUE]
  /\ UNCHANGED <<srv, page, pending, deletedFrom, awaiting, issued, followed>>
  /\ lastSettled' = NoSettle
  /\ UNCHANGED notCacheVars

\* The window regains focus: the mounted page's stale queries are fetched.
WindowFocus ==
  /\ cache' = Mount(cache, page, followed)
  /\ cache' # cache
  /\ UNCHANGED <<srv, page, pending, deletedFrom, awaiting, issued, followed>>
  /\ lastSettled' = NoSettle
  /\ UNCHANGED notCacheVars

\* A link of the sidebar or of a page.
GoTo(pg) ==
  /\ pg # page
  /\ pg = Place(pg, followed)
  /\ page' = pg
  /\ cache' = Mount(cache, pg, followed)
  /\ UNCHANGED <<srv, pending, deletedFrom, awaiting, issued, followed>>
  /\ lastSettled' = NoSettle
  /\ UNCHANGED notCacheVars

\* The user reloads the page: the cache starts empty.
Reload ==
  /\ pending = {}
  /\ cache' = Mount([k \in Keys |-> NoQuery], page, followed)
  /\ deletedFrom' = [k \in Keys |-> {}]
  /\ awaiting' = NoToggle
  /\ UNCHANGED <<srv, page, pending, issued, followed>>
  /\ lastSettled' = NoSettle
  /\ UNCHANGED notCacheVars

\* A signed-in user, one application with a reminder and a note, nothing fetched yet.
InitCache ==
  /\ \E u \in Users : u.role = "ADMIN" /\ SignedInAt(u, PathDashboard)
  /\ DialogUnmounted
  /\ FilterEmpty
  /\ FormsClosed
  /\ \E sent \in BOOLEAN, due \in Dues :
       srv = [e \in Entities |-> [i \in Ids |->
                IF i = 1
                THEN [st |-> "live", sent |-> sent /\ e = "rem", rev |-> 0,
                      due |-> IF e = "rem" THEN due ELSE "later"]
                ELSE Unused]]
  /\ followed = "rem" \/ srv["rem"][1] = [Unused EXCEPT !.st = "live"]
  /\ followed \in Entities
  /\ page = "other"
  /\ cache = [k \in Keys |-> NoQuery]
  /\ pending = {}
  /\ deletedFrom = [k \in Keys |-> {}]
  /\ awaiting = NoToggle
  /\ issued = 0
  /\ lastSettled = NoSettle

NextCache ==
  \/ ListDelete
  \/ AddSubmit
  \/ EditSubmit
  \/ DetailDeleteApplication
  \/ DetailCreateReminder
  \/ DetailUpdateReminder
  \/ DetailToggleReminder
  \/ DetailDeleteReminder
  \/ DetailCreateNote
  \/ DetailDeleteNote
  \/ RemindersCreate
  \/ RemindersUpdate
  \/ RemindersDelete
  \/ RemindersMarkComplete
  \/ \E m \in pending, ok \in BOOLEAN : Settle(m, ok)
  \/ \E k \in Keys, ok \in BOOLEAN : FetchDone(k, ok)
  \/ \E k \in Keys : StaleTimeElapsed(k)
  \/ WindowFocus
  \/ \E pg \in Pages : GoTo(pg)
  \/ Reload

SpecCache == InitCache /\ [][NextCache]_vars

(***************************************************************************)
(* The applications list page's filter.                                    *)
(***************************************************************************)
\* The status checkboxes the model ticks, two of the eight.
FilterStatuses == {"APPLIED", "OFFER"}

\* What onCheckedChange hands to handleStatusChange.
CheckedStates == {"true", "false", "indeterminate"}

\* Applications the server may answer; salary is <<>> when the record has none.
AppPool ==
  { [id |-> 1, companyName |-> <<"A", "c">>, position |-> <<"d">>,
     status |-> "APPLIED", salary |-> <<50>>],
    [id |-> 2, companyName |-> <<"b">>, position |-> <<"a", "B">>,
     status |-> "OFFER", salary |-> <<>>],
    [id |-> 3, companyName |-> <<"c">>, position |-> <<"d">>,
     status |-> "REJECTED", salary |-> <<100>>] }

AppLists ==
  {rows \in UNION {[1..n -> AppPool] : n \in 0..MaxApps} :
     \A i, j \in 1..Len(rows) : rows[i].id = rows[j].id => i = j}

SearchInputs == {<<>>, <<"a">>, <<"C">>}

\* What the number inputs deliver: the empty string or a numeral.
SalaryInputs == {<<>>, <<"0">>, <<"5", "0">>, <<"1", "0", "0">>}

\* String.prototype.includes
includes(str, search) ==
  \E i \in 0..(Len(str) - Len(search)) :
    SubSeq(str, i + 1, i + Len(search)) = search

Digits == <<"0", "1", "2", "3", "4", "5", "6", "7", "8", "9">>

IsDigit(c) == \E i \in 1..Len(Digits) : Digits[i] = c

DigitOf(c) == (CHOOSE i \in 1..Len(Digits) : Digits[i] = c) - 1

RECURSIVE ParseDigits(_)
ParseDigits(str) ==
  IF str = <<>> THEN 0
  ELSE ParseDigits(SubSeq(str, 1, Len(str) - 1)) * 10 + DigitOf(str[Len(str)])

NaN == [nan |-> TRUE, value |-> 0]

\* Number(string): blanks give 0, a decimal numeral its value, anything else NaN.
Number(str) ==
  LET t == trim(str)
      digits(u) == u # <<>> /\ \A i \in 1..Len(u) : IsDigit(u[i])
  IN  IF t = <<>> THEN [nan |-> FALSE, value |-> 0]
      ELSE IF digits(t) THEN [nan |-> FALSE, value |-> ParseDigits(t)]
      ELSE IF Head(t) = "-" /\ digits(Tail(t))
           THEN [nan |-> FALSE, value |-> 0 - ParseDigits(Tail(t))]
      ELSE NaN

Undefined == [defined |-> FALSE, value |-> 0]

\* parsedMin / minSalary (and Max): undefined for a blank or non-numeric input.
SalaryBound(input) ==
  IF trim(input) = <<>> THEN Undefined
  ELSE IF Number(input).nan THEN Undefined
  ELSE [defined |-> TRUE, value |-> Number(input).value]

matchesSearch(app, search) ==
  \/ includes(toLowerCase(app.companyName), toLowerCase(search))
  \/ includes(toLowerCase(app.position), toLowerCase(search))

\* matchesStatus that lets every status through.
matchesStatusAny(app, selected) == TRUE

matchesStatus(app, selected) ==
  Len(selected) = 0 \/ \E i \in 1..Len(selected) : selected[i] = app.status

\* matchesSalary with exclusive bounds.
matchesSalaryExclusive(app, min, max) ==
  LET minSalary == SalaryBound(min)
      maxSalary == SalaryBound(max)
      hasSalaryFilter ==
        (min # <<>> /\ trim(min) # <<>>) \/ (max # <<>> /\ trim(max) # <<>>)
      salaryValue == app.salary
  IN  \/ ~hasSalaryFilter
      \/ /\ salaryValue # <<>>
         /\ ~minSalary.defined \/ salaryValue[1] > minSalary.value
         /\ ~maxSalary.defined \/ salaryValue[1] < maxSalary.value

matchesSalary(app, min, max) ==
  LET minSalary == SalaryBound(min)
      maxSalary == SalaryBound(max)
      hasSalaryFilter ==
        (min # <<>> /\ trim(min) # <<>>) \/ (max # <<>> /\ trim(max) # <<>>)
      salaryValue == app.salary
  IN  \/ ~hasSalaryFilter
      \/ /\ salaryValue # <<>>
         /\ ~minSalary.defined \/ salaryValue[1] >= minSalary.value
         /\ ~maxSalary.defined \/ salaryValue[1] <= maxSalary.value

\* The useMemo behind filteredApplications.
FilterApplications(apps, search, selected, min, max) ==
  LET keep(app) ==
        /\ matchesSearch(app, search)
        /\ matchesStatus(app, selected)
        /\ matchesSalary(app, min, max)
  IN  IF ~apps.loaded THEN <<>> ELSE SelectSeq(apps.rows, keep)

\* The memo is computed again from the state the step leaves.
Recompute ==
  /\ filteredApplications' =
       FilterApplications(applications', debouncedSearch', selectedStatuses',
                          salaryMin', salaryMax')
  /\ UNCHANGED notFilterVars

\* The ['applications'] query answers.
ApplicationsFetched(rows) ==
  /\ applications' = [loaded |-> TRUE, rows |-> rows]
  /\ UNCHANGED <<searchInput, debouncedSearch, selectedStatuses, salaryMin, salaryMax>>
  /\ UNCHANGED <<timer, unchangedFor>>
  /\ Recompute

\* onChange of the search box (197); a changed value re-runs the effect of
\* useDebouncedValue: its cleanup clears the timeout, then a new one is set.
SetSearchInput(value) ==
  /\ searchInput' = value
  /\ IF value # searchInput
     THEN /\ timer' = Timer(DelayTicks)
          /\ unchangedFor' = 0
     ELSE UNCHANGED <<timer, unchangedFor>>
  /\ UNCHANGED <<applications, debouncedSearch, selectedStatuses, salaryMin, salaryMax>>
  /\ Recompute

\* One unit of time passes.
Tick ==
  /\ (timer.armed /\ timer.left > 0) \/ unchangedFor < DelayTicks
  /\ timer' = IF timer.armed /\ timer.left > 0 THEN Timer(timer.left - 1) ELSE timer
  /\ unchangedFor' = IF unchangedFor < DelayTicks THEN unchangedFor + 1 ELSE unchangedFor
  /\ UNCHANGED <<applications, searchInput, debouncedSearch, selectedStatuses,
                 salaryMin, salaryMax>>
  /\ Recompute

\* A timeout that fires as soon as it is set.
DebounceElapsedAtOnce ==
  /\ timer.armed
  /\ debouncedSearch' = searchInput
  /\ timer' = NoTimer
  /\ UNCHANGED <<applications, searchInput, selectedStatuses, salaryMin, salaryMax,
                 unchangedFor>>
  /\ Recompute

\* useDebouncedValue's timeout is due and fires: setDebounced(value).
DebounceElapsed ==
  /\ timer.armed
  /\ timer.left = 0
  /\ debouncedSearch' = searchInput
  /\ timer' = NoTimer
  /\ UNCHANGED <<applications, searchInput, selectedStatuses, salaryMin, salaryMax,
                 unchangedFor>>
  /\ Recompute

handleStatusChange(status, checked) ==
  /\ selectedStatuses' =
       LET isChecked == checked = "true"
           prev == selectedStatuses
           other(x) == x # status
       IN  IF isChecked
           THEN IF \E i \in 1..Len(prev) : prev[i] = status
                THEN prev
                ELSE Append(prev, status)
           ELSE SelectSeq(prev, other)
  /\ UNCHANGED <<applications, searchInput, debouncedSearch, salaryMin, salaryMax>>
  /\ UNCHANGED <<timer, unchangedFor>>
  /\ Recompute

SetSalaryMin(value) ==
  /\ salaryMin' = value
  /\ UNCHANGED <<applications, searchInput, debouncedSearch, selectedStatuses, salaryMax>>
  /\ UNCHANGED <<timer, unchangedFor>>
  /\ Recompute

SetSalaryMax(value) ==
  /\ salaryMax' = value
  /\ UNCHANGED <<applications, searchInput, debouncedSearch, selectedStatuses, salaryMin>>
  /\ UNCHANGED <<timer, unchangedFor>>
  /\ Recompute

resetFilters ==
  /\ selectedStatuses' = <<>>
  /\ salaryMin' = <<>>
  /\ salaryMax' = <<>>
  /\ UNCHANGED <<applications, searchInput, debouncedSearch>>
  /\ UNCHANGED <<timer, unchangedFor>>
  /\ Recompute

\* A signed-in user opens the applications list; applications stands for the
\* data of the ['applications'] query.
InitFilter ==
  /\ \E u \in Users : u.role = "ADMIN" /\ SignedInAt(u, PathApplications)
  /\ DialogUnmounted
  /\ CacheEmpty
  /\ FilterEmpty
  /\ FormsClosed

NextFilter ==
  \/ \E rows \in AppLists : ApplicationsFetched(rows)
  \/ \E value \in SearchInputs : SetSearchInput(value)
  \/ Tick
  \/ DebounceElapsed
  \/ \E status \in FilterStatuses, checked \in CheckedStates :
       handleStatusChange(status, checked)
  \/ \E value \in SalaryInputs : SetSalaryMin(value)
  \/ \E value \in SalaryInputs : SetSalaryMax(value)
  \/ resetFilters

SpecFilter == InitFilter /\ [][NextFilter]_vars

\* The search box alone, with time passing and due timeouts firing.
NextDebounce ==
  \/ \E rows \in AppLists : ApplicationsFetched(rows)
  \/ \E value \in SearchInputs : SetSearchInput(value)
  \/ Tick
  \/ DebounceElapsed

\* Time passes and a due timeout's callback is run by the event loop.
SpecDebounce ==
  /\ InitFilter
  /\ [][NextDebounce]_vars
  /\ WF_vars(Tick)
  /\ WF_vars(DebounceElapsed)

(***************************************************************************)
(* The forms: add and edit application, the reminder dialogs of the        *)
(* reminders page and of the detail page, the interview-note dialog.       *)
(***************************************************************************)
\* What a text field may hold.
FieldValues == {<<>>, <<" ">>, <<"x">>, <<"x", "y">>}

\* What a date input delivers: the empty string or a date.
DateValues == {<<>>, <<"d">>}

\* The value of the application select: none, or the id of an application.
SelectValues == {<<>>, <<"1">>}

\* The submit handler ran and sent nothing.
Rejected == [api |-> "rejected"]

\* Date.prototype.toISOString of the parsed input.
toISOString(value) == value \o <<"Z">>

\* normalizeDateValue / normalizeReminderDate
normalizeDateValue(value) == IF value # <<>> THEN toISOString(value) ELSE <<>>

\* The forms as they open: the add form with today's date, the edit forms with
\* the values of the record, the create dialogs empty.
InitialForms ==
  {[kind |-> "add", companyName |-> <<>>, position |-> <<>>,
    appliedDate |-> <<"d">>]}
  \cup {[kind |-> "edit", companyName |-> c, position |-> <<"x">>,
         appliedDate |-> d] : c \in FieldValues, d \in DateValues}
  \cup {[kind |-> "reminders", editingReminder |-> FALSE,
         selectedApplicationId |-> <<>>, message |-> <<>>, dateTime |-> <<>>]}
  \cup {[kind |-> "reminders", editingReminder |-> TRUE,
         selectedApplicationId |-> <<"1">>, message |-> m, dateTime |-> d] :
          m \in FieldValues, d \in DateValues}
  \cup {[kind |-> "detailReminder", editingReminder |-> FALSE,
         reminderMessage |-> <<>>, reminderDate |-> <<>>]}
  \cup {[kind |-> "detailReminder", editingReminder |-> TRUE,
         reminderMessage |-> m, reminderDate |-> d] :
          m \in FieldValues, d \in DateValues}
  \cup {[kind |-> "note", noteContent |-> <<>>, isPending |-> FALSE]}

\* The fields the user edits, with what each may be set to.
FieldInputs(kd) ==
  CASE kd \in {"add", "edit"} ->
         ({"companyName", "position"} \X FieldValues)
           \cup ({"appliedDate"} \X DateValues)
    [] kd = "reminders" ->
         ({"message"} \X FieldValues) \cup ({"dateTime"} \X DateValues)
           \cup ({"selectedApplicationId"} \X SelectValues)
    [] kd = "detailReminder" ->
         ({"reminderMessage"} \X FieldValues) \cup ({"reminderDate"} \X DateValues)
    [] kd = "note" -> {"noteContent"} \X FieldValues
    [] OTHER -> {}

\* applicationSchema with an optional position.
applicationSchemaOptionalPosition(data) ==
  /\ Len(data.companyName) >= 1
  /\ Len(data.appliedDate) >= 1

\* z.string().min(1) on the three required fields.
applicationSchema(data) ==
  /\ Len(data.companyName) >= 1
  /\ Len(data.position) >= 1
  /\ Len(data.appliedDate) >= 1

OpenForm(f) ==
  /\ form' = f
  /\ lastRequest' = NoRequest
  /\ UNCHANGED notFormVars

CloseForm ==
  /\ form # NoForm
  /\ form' = NoForm
  /\ lastRequest' = NoRequest
  /\ UNCHANGED notFormVars

SetField(name, value) ==
  /\ <<name, value>> \in FieldInputs(form.kind)
  /\ form' = [form EXCEPT ![name] = value]
  /\ lastRequest' = NoRequest
  /\ UNCHANGED notFormVars

\* AddApplicationPage: handleSubmit(onSubmit) calls onSubmit for data the schema accepts.
AddOnSubmit ==
  /\ form.kind = "add"
  /\ lastRequest' =
       IF applicationSchema(form)
       THEN [api |-> "applications.create", companyName |-> form.companyName,
             position |-> form.position, appliedDate |-> form.appliedDate]
       ELSE Rejected
  /\ UNCHANGED form
  /\ UNCHANGED notFormVars

\* EditApplicationPage
EditOnSubmit ==
  /\ form.kind = "edit"
  /\ lastRequest' =
       IF applicationSchema(form)
       THEN [api |-> "applications.update", companyName |-> form.companyName,
             position |-> form.position, appliedDate |-> form.appliedDate]
       ELSE Rejected
  /\ UNCHANGED form
  /\ UNCHANGED notFormVars

\* RemindersListPage
handleSubmit ==
  /\ form.kind = "reminders"
  /\ lastRequest' =
       IF \/ form.message = <<>>
          \/ form.dateTime = <<>>
          \/ ~form.editingReminder /\ form.selectedApplicationId = <<>>
       THEN Rejected
       ELSE IF form.editingReminder
       THEN [api |-> "reminders.update", reminderMessage |-> form.message,
             reminderDate |-> normalizeDateValue(form.dateTime)]
       ELSE [api |-> "reminders.create",
             applicationId |-> Number(form.selectedApplicationId).value,
             reminderMessage |-> form.message,
             reminderDate |-> normalizeDateValue(form.dateTime)]
  /\ UNCHANGED form
  /\ UNCHANGED notFormVars

\* ApplicationDetailPage
handleReminderSubmit ==
  /\ form.kind = "detailReminder"
  /\ lastRequest' =
       IF form.reminderMessage = <<>> \/ form.reminderDate = <<>>
       THEN Rejected
       ELSE [api |-> IF form.editingReminder
                     THEN "reminders.update" ELSE "reminders.create",
             applicationId |-> AppId,
             reminderMessage |-> form.reminderMessage,
             reminderDate |-> normalizeDateValue(form.reminderDate)]
  /\ UNCHANGED form
  /\ UNCHANGED notFormVars

\* The Save Note button, disabled while a save is pending or the content is empty.
SaveNote ==
  /\ form.kind = "note"
  /\ ~(form.isPending \/ form.noteContent = <<>>)
  /\ lastRequest' = [api |-> "notes.create", content |-> form.noteContent]
  /\ form' = [form EXCEPT !.isPending = TRUE]
  /\ UNCHANGED notFormVars

\* createNoteMutation settles: on success the content is cleared and the dialog closes.
NoteSettled(ok) ==
  /\ form.kind = "note"
  /\ form.isPending
  /\ form' = IF ok THEN NoForm ELSE [form EXCEPT !.isPending = FALSE]
  /\ lastRequest' = NoRequest
  /\ UNCHANGED notFormVars

\* A signed-in user with no form open.
InitForms ==
  /\ \E u \in Users : u.role = "ADMIN" /\ SignedInAt(u, PathApplications)
  /\ DialogUnmounted
  /\ CacheEmpty
  /\ FilterEmpty
  /\ FormsClosed

NextForms ==
  \/ \E f \in InitialForms : OpenForm(f)
  \/ CloseForm
  \/ \E name \in {"companyName", "position", "appliedDate", "message", "dateTime",
                  "selectedApplicationId", "reminderMessage", "reminderDate",
                  "noteContent"},
        value \in FieldValues \cup DateValues \cup SelectValues :
       SetField(name, value)
  \/ AddOnSubmit
  \/ EditOnSubmit
  \/ handleSubmit
  \/ handleReminderSubmit
  \/ SaveNote
  \/ \E ok \in BOOLEAN : NoteSettled(ok)

SpecForms == InitForms /\ [][NextForms]_vars

(***************************************************************************)
(* The settings page's preference switches and its save button, with the   *)
(* session's steps around them.                                            *)
(***************************************************************************)
\* A switch that also writes the preferences to storage.
handlePreferenceChangeStoring(key, value) ==
  /\ SettingsShown
  /\ preferences' = [preferences EXCEPT ![key] = value]
  /\ lsPrefs' = PreferencesStringify(preferences')
  /\ lastResponse' = NoResponse
  /\ UNCHANGED <<lsToken, lsUser, token, user, isLoading, location, unloadTo,
                 requiredRole, lastGuard, inflight, sessionToken, sessionUser, restored>>
  /\ UNCHANGED <<dlgVars, restVars>>

\* onCheckedChange of a switch (125-129): handlePreferenceChange (47-49).
handlePreferenceChange(key, value) ==
  /\ SettingsShown
  /\ preferences' = [preferences EXCEPT ![key] = value]
  /\ UNCHANGED lsPrefs
  /\ lastResponse' = NoResponse
  /\ UNCHANGED <<lsToken, lsUser, token, user, isLoading, location, unloadTo,
                 requiredRole, lastGuard, inflight, sessionToken, sessionUser, restored>>
  /\ UNCHANGED <<dlgVars, restVars>>

\* The "Save preferences" button (138): savePreferences (51-61); setItem may
\* throw (the storage is full), and then nothing is written.
savePreferences ==
  /\ SettingsShown
  /\ \E thrown \in BOOLEAN :
       lsPrefs' = IF thrown THEN lsPrefs ELSE PreferencesStringify(preferences)
  /\ UNCHANGED preferences
  /\ lastResponse' = NoResponse
  /\ UNCHANGED <<lsToken, lsUser, token, user, isLoading, location, unloadTo,
                 requiredRole, lastGuard, inflight, sessionToken, sessionUser, restored>>
  /\ UNCHANGED <<dlgVars, restVars>>

\* The pages a user of the settings goes to.
SettingsPaths == {PathLogin, PathSettings}

\* A signed-in user on the settings page, nothing saved yet.
InitSettings ==
  /\ \E u \in Users : u.role = "ADMIN" /\ SignedInAt(u, PathSettings)
  /\ DialogUnmounted
  /\ CacheEmpty
  /\ FilterEmpty
  /\ FormsClosed

NextSettings ==
  \/ \E key \in PreferenceKeys, value \in BOOLEAN : handlePreferenceChange(key, value)
  \/ savePreferences
  \/ HandleLogout
  \/ SendRequest("query")
  \/ \E r \in inflight, status \in Statuses : Respond(r, status)
  \/ \E p \in SettingsPaths : PageLoad(p, NoRole)
  \/ MountEffect
  \/ \E p \in SettingsPaths : Navigate(p, NoRole)

SpecSettings == InitSettings /\ [][NextSettings]_vars

(***************************************************************************)
(* The registration page (pages/RegisterPage.tsx).                         *)
(***************************************************************************)
\* checkEmailExists requests in flight at once.
MaxChecks == 2

\* register requests in flight at once.
MaxRegisters == 1

\* What the email field may hold.
Emails == {<<>>, <<"a">>, <<"a", "@", "x">>, <<"b", "@", "x">>}

\* z.string().email(): the schema's check of the email field.
IsEmail(str) ==
  \E i \in 2..(Len(str) - 1) : str[i] = "@" /\ \A j \in 1..Len(str) : j # i => str[j] # "@"

\* What a check may come back with: the email exists, it does not, or the
\* request failed.
CheckOutcomes == {"exists", "free", "error"}

\* The accounts the backend has: what GET /api/auth/check-email answers for an
\* email when the request does not fail.
RegisteredEmails == {<<"a", "@", "x">>}

CheckAnswer(emailValue) == IF emailValue \in RegisteredEmails THEN "exists" ELSE "free"

\* The page is unmounted (navigate to /verify-email); a later visit starts anew.
RegisterRemount ==
  /\ email' = <<>>
  /\ checkTimer' = Timer(CheckDelayTicks)
  /\ emailExists' = FALSE
  /\ isCheckingEmail' = FALSE
  /\ isSubmitting' = FALSE
  /\ checks' = <<>>
  /\ registers' = 0
  /\ emailUnchangedFor' = 0
  /\ lastReport' = "none"

\* Typing in the email field: watch('email') changes and the effect of 60-68
\* runs again: its cleanup clears the timeout, then a new one is set.
SetEmail(value) ==
  /\ value # email
  /\ email' = value
  /\ checkTimer' = Timer(CheckDelayTicks)
  /\ emailUnchangedFor' = 0
  /\ UNCHANGED <<emailExists, isCheckingEmail, isSubmitting, checks, registers, lastReport>>
  /\ UNCHANGED notRegVars

\* One unit of time passes on the registration page.
RegisterTick ==
  /\ (checkTimer.armed /\ checkTimer.left > 0) \/ emailUnchangedFor < CheckDelayTicks
  /\ checkTimer' =
       IF checkTimer.armed /\ checkTimer.left > 0
       THEN Timer(checkTimer.left - 1) ELSE checkTimer
  /\ emailUnchangedFor' =
       IF emailUnchangedFor < CheckDelayTicks
       THEN emailUnchangedFor + 1 ELSE emailUnchangedFor
  /\ UNCHANGED <<email, emailExists, isCheckingEmail, isSubmitting, checks, registers,
                 lastReport>>
  /\ UNCHANGED notRegVars

\* The timeout's callback (61-65) and checkEmailExists up to its await (46-51).
CheckTimerFires ==
  /\ checkTimer.armed
  /\ checkTimer.left = 0
  /\ checkTimer' = NoTimer
  /\ IF email # <<>> /\ includes(email, <<"@">>)
     THEN /\ Len(checks) < MaxChecks
          /\ isCheckingEmail' = TRUE
          /\ checks' = Append(checks, email)
     ELSE UNCHANGED <<isCheckingEmail, checks>>
  /\ UNCHANGED <<email, emailExists, isSubmitting, registers, emailUnchangedFor, lastReport>>
  /\ UNCHANGED notRegVars

\* A check that drops the server's answer.
checkEmailExistsSettlesUnheeded(i, outcome) ==
  /\ i \in 1..Len(checks)
  /\ outcome \in {"error", CheckAnswer(checks[i])}
  /\ checks' = SubSeq(checks, 1, i - 1) \o SubSeq(checks, i + 1, Len(checks))
  /\ UNCHANGED emailExists
  /\ lastReport' = IF outcome = "error" THEN lastReport ELSE outcome
  /\ isCheckingEmail' = FALSE
  /\ UNCHANGED <<email, checkTimer, isSubmitting, registers, emailUnchangedFor>>
  /\ UNCHANGED notRegVars

\* The rest of checkEmailExists (52-57) when request i settles.
checkEmailExistsSettles(i, outcome) ==
  /\ i \in 1..Len(checks)
  /\ outcome \in {"error", CheckAnswer(checks[i])}
  /\ checks' = SubSeq(checks, 1, i - 1) \o SubSeq(checks, i + 1, Len(checks))
  /\ emailExists' = IF outcome = "error" THEN emailExists ELSE outcome = "exists"
  /\ lastReport' = IF outcome = "error" THEN lastReport ELSE outcome
  /\ isCheckingEmail' = FALSE
  /\ UNCHANGED <<email, checkTimer, isSubmitting, registers, emailUnchangedFor>>
  /\ UNCHANGED notRegVars

\* A submit event of the form (94-97): from the button, which is disabled while
\* isSubmitting || emailExists (177-181), or from elsewhere; handleSubmit calls
\* onSubmit (70-76) when the schema accepts the fields.
RegisterSubmit(byButton, othersValid) ==
  /\ byButton => ~(isSubmitting \/ emailExists)
  /\ IF othersValid /\ IsEmail(email) /\ ~emailExists
     THEN /\ registers < MaxRegisters
          /\ isSubmitting' = TRUE
          /\ registers' = registers + 1
     ELSE UNCHANGED <<isSubmitting, registers>>
  /\ UNCHANGED <<email, checkTimer, emailExists, isCheckingEmail, checks,
                 emailUnchangedFor, lastReport>>
  /\ UNCHANGED notRegVars

\* The register request settles (84-91): on success the page is left.
RegisterSettles(ok) ==
  /\ registers > 0
  /\ IF ok
     THEN RegisterRemount
     ELSE /\ registers' = registers - 1
          /\ isSubmitting' = FALSE
          /\ UNCHANGED <<email, checkTimer, emailExists, isCheckingEmail, checks,
                         emailUnchangedFor, lastReport>>
  /\ UNCHANGED notRegVars

\* A visitor without a session on a public page, the provider mounted.
SignedOutAt(path) ==
  /\ lsToken = Null
  /\ lsUser = NoItem
  /\ token = Null
  /\ user = NullUser
  /\ isLoading = FALSE
  /\ location = At(path)
  /\ unloadTo = NoPath
  /\ requiredRole = NoRole
  /\ lastGuard = NoGuard
  /\ inflight = {}
  /\ sessionToken = Null
  /\ sessionUser = NullUser
  /\ restored = FALSE
  /\ lastResponse = NoResponse

\* A visitor on the registration page.
InitRegister ==
  /\ SignedOutAt(PathRegister)
  /\ DialogUnmounted
  /\ CacheEmpty
  /\ FilterEmpty
  /\ FormsClosed

NextRegister ==
  \/ \E value \in Emails : SetEmail(value)
  \/ RegisterTick
  \/ CheckTimerFires
  \/ \E i \in 1..MaxChecks, outcome \in CheckOutcomes : checkEmailExistsSettles(i, outcome)
  \/ \E byButton \in BOOLEAN, othersValid \in BOOLEAN : RegisterSubmit(byButton, othersValid)
  \/ \E ok \in BOOLEAN : RegisterSettles(ok)

SpecRegister == InitRegister /\ [][NextRegister]_vars

(***************************************************************************)
(* The verify-email page (unnamed/part_001: VerifyEmailPage).              *)
(***************************************************************************)
PathVerifyEmail == <<"/", "verify-email">>

\* What the page renders (77-139).
VerifyView ==
  IF isVerifying THEN "verifying" ELSE IF isVerified THEN "verified" ELSE "failed"

\* What the verification call may come back with.
VerifyOutcomes == {"success", "unsuccessful", "error"}

\* The session's variables a navigation of this page leaves alone.
VerifyKeepsSession ==
  /\ lastResponse' = NoResponse
  /\ UNCHANGED <<lsToken, lsUser, token, user, isLoading, unloadTo, inflight,
                 sessionToken, sessionUser, restored>>
  /\ UNCHANGED notVerifyAuthVars

\* The effect of 22-28 and verifyEmail up to its await (30-34).
VerifyEffect ==
  /\ location.path = PathVerifyEmail
  /\ ~effectRan
  /\ effectRan' = TRUE
  /\ IF Truthy(urlToken)
     THEN /\ verifying' = verifying + 1
          /\ UNCHANGED isVerifying
     ELSE /\ isVerifying' = FALSE
          /\ UNCHANGED verifying
  /\ UNCHANGED <<urlToken, stateEmail, isVerified, verifyError, redirectTimer,
                 isResending, resendCooldown, verifiedFor, lastResend>>
  /\ UNCHANGED notVerifyVars

\* A verification that redirects at once.
verifyEmailSettlesRedirectingAtOnce(outcome) ==
  /\ verifying > 0
  /\ verifying' = verifying - 1
  /\ isVerifying' = FALSE
  /\ IF outcome = "success"
     THEN /\ isVerified' = TRUE
          /\ redirectTimer' = Timer(0)
          /\ UNCHANGED verifyError
     ELSE /\ verifyError' = (verifyError \/ outcome = "error")
          /\ UNCHANGED <<isVerified, redirectTimer>>
  /\ UNCHANGED <<urlToken, stateEmail, effectRan, isResending, resendCooldown, verifiedFor, lastResend>>
  /\ UNCHANGED notVerifyVars

\* The rest of verifyEmail (35-47) when the request settles.
verifyEmailSettles(outcome) ==
  /\ verifying > 0
  /\ verifying' = verifying - 1
  /\ isVerifying' = FALSE
  /\ IF outcome = "success"
     THEN /\ isVerified' = TRUE
          /\ redirectTimer' = Timer(RedirectTicks)
          /\ UNCHANGED verifyError
     ELSE /\ verifyError' = (verifyError \/ outcome = "error")
          /\ UNCHANGED <<isVerified, redirectTimer>>
  /\ UNCHANGED <<urlToken, stateEmail, effectRan, isResending, resendCooldown, verifiedFor, lastResend>>
  /\ UNCHANGED notVerifyVars

\* One second passes: the redirect's timeout comes nearer and the cooldown's
\* interval (61-69) counts down.
VerifyTick ==
  /\ \/ redirectTimer.armed /\ redirectTimer.left > 0
     \/ resendCooldown > 0
     \/ isVerified /\ verifiedFor < RedirectTicks
  /\ redirectTimer' =
       IF redirectTimer.armed /\ redirectTimer.left > 0
       THEN Timer(redirectTimer.left - 1) ELSE redirectTimer
  /\ resendCooldown' = IF resendCooldown <= 1 THEN 0 ELSE resendCooldown - 1
  /\ verifiedFor' =
       IF isVerified /\ verifiedFor < RedirectTicks THEN verifiedFor + 1 ELSE verifiedFor
  /\ UNCHANGED <<urlToken, stateEmail, isVerifying, isVerified, verifyError, effectRan,
                 verifying, isResending, lastResend>>
  /\ UNCHANGED notVerifyVars

\* The timeout of 39-41 fires: navigate('/login').
RedirectFires ==
  /\ redirectTimer.armed
  /\ redirectTimer.left = 0
  /\ redirectTimer' = NoTimer
  /\ requiredRole' = NoRole
  /\ Render(NoRole, isLoading, token, user, At(PathLogin))
  /\ VerifyKeepsSession
  /\ UNCHANGED <<urlToken, stateEmail, isVerifying, isVerified, verifyError, effectRan,
                 verifying, isResending, resendCooldown, verifiedFor, lastResend>>

\* The buttons "Go to Login" (99) and "Back to Register" (129).
VerifyNavigate(p) ==
  /\ location.path = PathVerifyEmail
  /\ p = IF VerifyView = "verified" THEN PathLogin ELSE PathRegister
  /\ VerifyView # "verifying"
  /\ requiredRole' = NoRole
  /\ Render(NoRole, isLoading, token, user, At(p))
  /\ VerifyKeepsSession
  /\ UNCHANGED verifyVars

\* handleResendVerification (50-59) up to its await, from the button of 110-113.
handleResendVerification ==
  /\ location.path = PathVerifyEmail
  /\ VerifyView = "failed"
  /\ ~(isResending \/ resendCooldown > 0)
  /\ isResending' = stateEmail
  /\ UNCHANGED <<urlToken, stateEmail, isVerifying, isVerified, verifyError, effectRan,
                 verifying, redirectTimer, resendCooldown, verifiedFor, lastResend>>
  /\ UNCHANGED notVerifyVars

\* A resend whose failure starts the cooldown as well.
ResendSettlesCoolingAlways(ok) ==
  /\ isResending
  /\ isResending' = FALSE
  /\ resendCooldown' = ResendCooldown
  /\ lastResend' = IF ok THEN "sent" ELSE "failed"
  /\ UNCHANGED <<urlToken, stateEmail, isVerifying, isVerified, verifyError, effectRan,
                 verifying, redirectTimer, verifiedFor>>
  /\ UNCHANGED notVerifyVars

\* The resend request settles (59-74).
ResendSettles(ok) ==
  /\ isResending
  /\ isResending' = FALSE
  /\ resendCooldown' = IF ok THEN ResendCooldown ELSE resendCooldown
  /\ lastResend' = IF ok THEN "sent" ELSE "failed"
  /\ UNCHANGED <<urlToken, stateEmail, isVerifying, isVerified, verifyError, effectRan,
                 verifying, redirectTimer, verifiedFor>>
  /\ UNCHANGED notVerifyVars

\* A visitor opens /verify-email, from the link of the mail or after registering.
InitVerify ==
  /\ SignedOutAt(PathVerifyEmail)
  /\ DialogUnmounted
  /\ CacheEmpty
  /\ FilterEmpty
  /\ form = NoForm
  /\ lastRequest = NoRequest
  /\ lsPrefs = NoItem
  /\ preferences = defaultPreferences
  /\ RegisterMounted
  /\ \E t \in UrlTokens, e \in BOOLEAN : VerifyMounted(t, e)
  /\ AnalyticsUnloaded
  /\ CalendarMounted
  /\ BadgesUnrendered
  /\ RemindersListMounted
  /\ RouterMounted

NextVerify ==
  \/ VerifyEffect
  \/ \E outcome \in VerifyOutcomes : verifyEmailSettles(outcome)
  \/ VerifyTick
  \/ RedirectFires
  \/ \E p \in {PathLogin, PathRegister} : VerifyNavigate(p)
  \/ handleResendVerification
  \/ \E ok \in BOOLEAN : ResendSettles(ok)

\* The effect runs after the mount, a request sent is answered or fails, time
\* passes and a due timeout fires.
SpecVerify ==
  /\ InitVerify
  /\ [][NextVerify]_vars
  /\ WF_vars(VerifyEffect)
  /\ WF_vars(\E outcome \in VerifyOutcomes : verifyEmailSettles(outcome))
  /\ WF_vars(VerifyTick)
  /\ WF_vars(RedirectFires)

(***************************************************************************)
(* C1: every request in flight carries the header 'Bearer <token>' of the  *)
(* token stored by the last successful login when no logout and no 401 has *)
(* occurred since, and no Authorization header after a logout or a 401     *)
(* (or before any login).                                                  *)
(***************************************************************************)
C1_BearerOfSession ==
  \A r \in inflight :
    r.auth = IF r.session = Null THEN NoHeader ELSE Bearer(r.session)

\* A request sent in a session and one sent after it ended are both in flight.
C1_Witness ==
  /\ \E r \in inflight : r.session \in Tokens /\ r.auth = Bearer(r.session)
  /\ \E r \in inflight : r.session = Null /\ r.auth = NoHeader
  /\ sessionToken = Null

(***************************************************************************)
(* C2: a response with status 401 leaves both session keys absent from     *)
(* local storage and the browser sent to /login, and the caller's promise  *)
(* rejected; a response with another error status leaves local storage and *)
(* the browser location as they were (and is rejected too).                *)
(***************************************************************************)
C2_Unauthorized ==
  /\ lastResponse.status = 401 =>
       /\ lsToken = Null
       /\ lsUser = NoItem
       /\ unloadTo = PathLogin
       /\ lastResponse.rejected
  /\ lastResponse.status \in Statuses \ {200, 401} =>
       /\ <<lsToken, lsUser, unloadTo>> = lastResponse.before
       /\ lastResponse.rejected

\* A 401 arrived while a session was stored.
C2_Witness ==
  /\ lastResponse.status = 401
  /\ lastResponse.before[1] \in Tokens
  /\ lastResponse.before[2] # NoItem

(***************************************************************************)
(* C3: ProtectedRoute shows its child page only when loading has finished, *)
(* a token and a user are held and the user's role is the required one (if *)
(* one is required); not authenticated, it shows nothing and the location  *)
(* becomes /login with returnUrl the path it was on; on a role mismatch it *)
(* shows nothing and the location becomes '/'.                             *)
(***************************************************************************)
C3_Guard ==
  lastGuard # NoGuard =>
    /\ lastGuard.shown = "children" =>
         /\ ~isLoading
         /\ token \in Tokens
         /\ user \in Users
         /\ lastGuard.role # NoRole => user.role = lastGuard.role
         /\ location = At(lastGuard.at)
    /\ (~isLoading /\ ~(token \in Tokens /\ user \in Users)) =>
         /\ lastGuard.shown = "nothing"
         /\ location.path = PathLogin
         /\ decodeURIComponent(location.returnUrl) = lastGuard.at
    /\ (~isLoading /\ token \in Tokens /\ user \in Users
          /\ lastGuard.role # NoRole /\ user.role # lastGuard.role) =>
         /\ lastGuard.shown = "nothing"
         /\ location = At(PathRoot)

\* An admin-only page was opened by a signed-in user who is no admin.
C3_Witness ==
  /\ lastGuard # NoGuard
  /\ lastGuard.role = "ADMIN"
  /\ user \in Users
  /\ user.role = "USER"
  /\ token \in Tokens
  /\ lastGuard.shown = "nothing"
  /\ location = At(PathRoot)

(***************************************************************************)
(* C4: the user-delete request is sent only from step 3; the step changes  *)
(* only from 1 to 2 with the checkbox acknowledged, from 2 to 3 with the   *)
(* typed email (trimmed, lower-cased) equal to the lower-cased account     *)
(* email, or back to 1 as the dialog closes.                               *)
(***************************************************************************)
C4_Steps ==
  [][ /\ step' # step =>
           \/ step = 1 /\ step' = 2 /\ acknowledged
           \/ /\ step = 2
              /\ step' = 3
              /\ acknowledged
              /\ user \in Users
              /\ toLowerCase(trim(emailInput)) = toLowerCase(user.email)
           \/ step' = 1 /\ ~dlgOpen'
      /\ (\E r \in inflight' \ inflight : r.kind = "deleteUser") =>
           step = 3 /\ dlgOpen ]_vars

\* The delete request is in flight, sent after an email typed with blanks and capitals.
C4_Witness ==
  /\ \E r \in inflight : r.kind = "deleteUser"
  /\ step = 3
  /\ emailInput = <<" ", "A", "B", " ">>

(***************************************************************************)
(* C5: after a successful delete of an application, a reminder or a note,  *)
(* the list the delete was issued from no longer shows the entity: no      *)
(* query that the page presents as current (fetched, not stale, not being  *)
(* fetched) holds a row deleted from its page since the last reload.       *)
(***************************************************************************)
C5_DeletedLeavesList ==
  \A k \in Keys :
    Fresh(k) => \A row \in cache[k].data : row.id \notin deletedFrom[k]

(***************************************************************************)
(* C6: after a successful create, update or sent-toggle every cached query *)
(* that contains the entity is invalidated: a query whose data lacks a row *)
(* the server now answers is stale or being fetched.                       *)
(***************************************************************************)
C6_MutationsInvalidate ==
  \A k \in Keys :
    (/\ cache[k].has
     /\ ServerAnswers(srv, k)
     /\ \E row \in ServerAnswer(srv, k) : row \notin cache[k].data)
      => cache[k].stale \/ cache[k].fetching

\* The toggle noted last has succeeded and its list has been fetched again.
ToggleShown(a) == a # NoToggle /\ a.outcome = "ok" /\ a.refetched

C8_StatusFilter ==
  LET selected == {selectedStatuses[i] : i \in DOMAIN selectedStatuses}
      pass(app) ==
        /\ selected # {} => app.status \in selected
        /\ matchesSearch(app, debouncedSearch)
        /\ matchesSalary(app, salaryMin, salaryMax)
  IN  filteredApplications = SelectSeq(applications.rows, pass)

\* Statuses are selected; a fetched application that passes the other filters
\* is left out for its status and another is shown.
C8_Witness ==
  /\ selectedStatuses # <<>>
  /\ filteredApplications # <<>>
  /\ \E i \in DOMAIN applications.rows :
       /\ \A j \in DOMAIN selectedStatuses :
            selectedStatuses[j] # applications.rows[i].status
       /\ matchesSearch(applications.rows[i], debouncedSearch)
       /\ matchesSalary(applications.rows[i], salaryMin, salaryMax)

\* The amount a numeral of the salary inputs stands for.
EnteredAmount(text) ==
  CASE text = <<"0">> -> 0
    [] text = <<"5", "0">> -> 50
    [] text = <<"1", "0", "0">> -> 100

(***************************************************************************)
(* C9: the filtered list is exactly the fetched applications that pass the *)
(* search and status filters and, once a minimum or a maximum is entered,  *)
(* have a salary that is not below the entered minimum and not above the   *)
(* entered maximum (bounds inclusive, an empty bound not constraining).    *)
(***************************************************************************)
C9_SalaryRange ==
  LET minEntered == salaryMin # <<>>
      maxEntered == salaryMax # <<>>
      inRange(app) ==
        (minEntered \/ maxEntered) =>
          /\ app.salary # <<>>
          /\ minEntered => app.salary[1] >= EnteredAmount(salaryMin)
          /\ maxEntered => app.salary[1] <= EnteredAmount(salaryMax)
      pass(app) ==
        /\ matchesSearch(app, debouncedSearch)
        /\ matchesStatus(app, selectedStatuses)
        /\ inRange(app)
  IN  filteredApplications = SelectSeq(applications.rows, pass)

\* Minimum and maximum are both 50: the application paid exactly 50 is shown,
\* the fetched one without a salary is not.
C9_Witness ==
  /\ salaryMin = <<"5", "0">>
  /\ salaryMax = <<"5", "0">>
  /\ Len(filteredApplications) = 1
  /\ filteredApplications[1].salary = <<50>>
  /\ \E i \in DOMAIN applications.rows : applications.rows[i].salary = <<>>

(***************************************************************************)
(* C10: a create or update request is sent only for an application with a  *)
(* non-empty company name, position and applied date, for a reminder with  *)
(* a non-empty message and date (and, created on the reminders page, a     *)
(* selected application), and for a note with non-empty content.           *)
(***************************************************************************)
C10_RequiredFields ==
  lastRequest.api \notin {"none", "rejected"} =>
    CASE form.kind \in {"add", "edit"} ->
           /\ form.companyName # <<>> /\ lastRequest.companyName # <<>>
           /\ form.position # <<>> /\ lastRequest.position # <<>>
           /\ form.appliedDate # <<>> /\ lastRequest.appliedDate # <<>>
      [] form.kind = "reminders" ->
           /\ form.message # <<>> /\ lastRequest.reminderMessage # <<>>
           /\ form.dateTime # <<>> /\ lastRequest.reminderDate # <<>>
           /\ ~form.editingReminder =>
                form.selectedApplicationId # <<>> /\ lastRequest.applicationId = 1
      [] form.kind = "detailReminder" ->
           /\ form.reminderMessage # <<>> /\ lastRequest.reminderMessage # <<>>
           /\ form.reminderDate # <<>> /\ lastRequest.reminderDate # <<>>
      [] form.kind = "note" ->
           form.noteContent # <<>> /\ lastRequest.content # <<>>
      [] OTHER -> FALSE

\* The add form was submitted with an empty position and nothing was sent.
C10_Witness ==
  /\ lastRequest = Rejected
  /\ form.kind = "add"
  /\ form.companyName # <<>>
  /\ form.position = <<>>

(***************************************************************************)
(* C11: login is all-or-nothing.  When a login request settles rejected,   *)
(* the provider's token and user and both session keys of local storage    *)
(* are what they were, and no request is sent in its place; when it        *)
(* settles fulfilled, token and user are set and both are in local storage.*)
(***************************************************************************)
C11_LoginAllOrNothing ==
  [][\A r \in inflight :
       (/\ r.kind = "login"
        /\ inflight' = inflight \ {r}
        /\ lastResponse'.status \in Statuses)
         => IF lastResponse'.rejected
            THEN UNCHANGED <<token, user, lsToken, lsUser>>
            ELSE /\ token' \in Tokens
                 /\ user' \in Users
                 /\ lsToken' = token'
                 /\ lsUser' = JSONStringify(user')]_vars

AccountDeletionFailure ==
  [][\A r \in inflight :
       (/\ r.kind = "deleteUser"
        /\ inflight' = inflight \ {r}
        /\ lastResponse'.status \in Statuses
        /\ lastResponse'.rejected)
         => /\ UNCHANGED <<token, user, dlgOpen, step, location>>
            /\ ~isDeleting'
            /\ unloadTo' \in {unloadTo, PathLogin}
            /\ unloadTo' # unloadTo => lastResponse'.status = 401]_vars

(***************************************************************************)
(* C13: session persistence round trip.  When the provider is mounted      *)
(* again (a page load followed by its mount effect) while a login has      *)
(* succeeded and no logout and no 401 has occurred since, the mount effect *)
(* leaves the token of that login and the user most recently stored by     *)
(* login or updateUser, and isAuthenticated is true; mounted again after a *)
(* logout, it leaves isAuthenticated false.                                *)
(***************************************************************************)
C13_SessionRoundTrip ==
  [][(isLoading /\ ~isLoading') =>
       IF sessionToken # Null
       THEN /\ token' = sessionToken
            /\ user' = sessionUser
            /\ isAuthenticated(token', user')
       ELSE ~isAuthenticated(token', user')]_vars

\* The provider restored the session of user 2, whose stored record came from
\* updateUser or login, and the guard shows the page.
C13_Witness ==
  /\ restored
  /\ ~isLoading
  /\ token = sessionToken
  /\ user = sessionUser
  /\ user.id = 2
  /\ lsUser = JSONStringify(user)
  /\ lastGuard.shown = "children"

(***************************************************************************)
(* C14: interview notes are never updated in place.  The only note         *)
(* requests the client issues are the list of an application's notes, a    *)
(* create and a delete: no mutation in flight for a note is anything but a *)
(* create or a delete, the only note query is the list of the application, *)
(* and no step changes a note that exists before and after it.             *)
(***************************************************************************)
C14_NotesNotUpdated ==
  [][/\ \A m \in pending' : m.entity = "note" => m.op \in {"create", "delete"}
     /\ {k \in Keys : KeyEntity(k) = "note"} = {KeyNotes}
     /\ \A i \in Ids :
          (srv["note"][i].st = "live" /\ srv'["note"][i].st = "live")
            => srv'["note"][i] = srv["note"][i]]_vars

\* A second note has been created and the list fetched again: the first note
\* is as it was.
C14_Witness ==
  /\ followed = "note"
  /\ srv["note"][1] = [Unused EXCEPT !.st = "live"]
  /\ srv["note"][2].st = "live"
  /\ cache[KeyNotes].has
  /\ ~cache[KeyNotes].stale
  /\ Cardinality(cache[KeyNotes].data) = 2

(***************************************************************************)
(* C15: the preference flags live under their own local-storage key.  A    *)
(* step that changes or removes a session key or the provider's session    *)
(* (logout, a 401 response, the restore on mount) leaves the preferences   *)
(* key as it was; a step that writes the preferences key is the save of    *)
(* the mounted settings page, writes the flags the page holds and leaves   *)
(* the token and user keys; a switch changes the flags in memory only.     *)
(***************************************************************************)
C15_PreferencesKeyApart ==
  [][/\ (lsToken' # lsToken \/ lsUser' # lsUser \/ token' # token \/ user' # user)
          => lsPrefs' = lsPrefs
     /\ lsPrefs' # lsPrefs
          => /\ SettingsShown
             /\ lsPrefs' = PreferencesStringify(preferences)
             /\ preferences' = preferences
             /\ UNCHANGED <<lsToken, lsUser, token, user>>
     /\ (SettingsShown /\ preferences' # preferences) => lsPrefs' = lsPrefs]_vars

\* Preferences other than the defaults were saved, then a 401 removed the
\* session keys: the preferences key is still there.
C15_Witness ==
  /\ lsPrefs = PreferencesStringify([defaultPreferences EXCEPT !.weeklyDigest = TRUE])
  /\ lastResponse.status = 401
  /\ lastResponse.before[1] # Null
  /\ lsToken = Null
  /\ lsUser = NoItem

(***************************************************************************)
(* C16: useDebouncedValue.  The debounced search changes only to the value *)
(* the search box holds, and only after the box has held it for the whole  *)
(* delay, so a value replaced before the delay elapsed is never emitted    *)
(* and the list is filtered by the debounced value only; and once the box  *)
(* stops changing, the debounced search eventually equals it.              *)
(***************************************************************************)
C16_Debounced ==
  /\ [][/\ debouncedSearch' # debouncedSearch
             => /\ debouncedSearch' = searchInput
                /\ searchInput' = searchInput
                /\ unchangedFor >= DelayTicks
        /\ filteredApplications' =
             FilterApplications(applications', debouncedSearch', selectedStatuses',
                                salaryMin', salaryMax')]_vars
  /\ \A v \in SearchInputs :
       <>[](searchInput = v) => <>[](debouncedSearch = v)

\* The box went from empty to "a" and has held it long enough: the list is now
\* filtered by "a".
C16_Witness ==
  /\ searchInput = <<"a">>
  /\ debouncedSearch = <<"a">>
  /\ ~timer.armed
  /\ applications.loaded
  /\ Len(filteredApplications) < Len(applications.rows)

(***************************************************************************)
(* C17: the registration page's email check.  A check request is sent only *)
(* for the value the email field holds, when the field has held it for the *)
(* whole delay and it is non-empty and contains '@'; and in a step that    *)
(* starts while the last completed check reported the email as existing,   *)
(* no register request is sent.                                            *)
(***************************************************************************)
C17_CheckedBeforeRegister ==
  [][/\ Len(checks') > Len(checks)
          => /\ checks' = Append(checks, email)
             /\ emailUnchangedFor >= CheckDelayTicks
             /\ email # <<>>
             /\ \E i \in 1..Len(email) : email[i] = "@"
     /\ lastReport = "exists" => registers' <= registers]_vars

\* The last completed check said the email exists; the form holds a valid
\* email and nothing is being submitted.
C17_Witness ==
  /\ lastReport = "exists"
  /\ emailExists
  /\ IsEmail(email)
  /\ checks = <<>>
  /\ registers = 0
  /\ ~isSubmitting

(***************************************************************************)
(* C18: the verify-email page.  With a token in the URL and a verification *)
(* that reports success the page shows the verified view and sets the      *)
(* redirect, whose timeout navigates to /login, not before 3 seconds have  *)
(* passed; without a token no verification request is sent and, once the   *)
(* effect has run, the failure view is shown; and in every case the        *)
(* verifying state eventually ends, and a verified page eventually is at   *)
(* /login.                                                                 *)
(***************************************************************************)
C18_VerifyEmail ==
  /\ [][/\ (~isVerified /\ isVerified')
             => /\ Truthy(urlToken)
                /\ VerifyView' = "verified"
                /\ redirectTimer' = Timer(RedirectTicks)
        /\ (redirectTimer.armed /\ ~redirectTimer'.armed)
             => /\ isVerified
                /\ verifiedFor >= RedirectTicks
                /\ location'.path = PathLogin
        /\ ~Truthy(urlToken)
             => /\ verifying' = 0
                /\ effectRan' => VerifyView' = "failed"]_vars
  /\ <>(~isVerifying)
  /\ isVerified ~> (location.path = PathLogin)

\* Verified three seconds ago, the timeout has fired and the browser is at /login.
C18_Witness ==
  /\ urlToken = "tok"
  /\ isVerified
  /\ verifiedFor = RedirectTicks
  /\ ~redirectTimer.armed
  /\ location.path = PathLogin

\* ---------------------------------------------------------------------------
\* AnalyticsPage: the aggregates useMemo derives from the fetched applications
\* ---------------------------------------------------------------------------

\* Object.keys(STATUS_COLORS), in insertion order: one colour per
\* ApplicationStatus.
STATUS_COLORS ==
  <<"APPLIED", "PHONE_SCREEN", "TECHNICAL", "ONSITE", "OFFER", "REJECTED",
    "INTERVIEW", "WITHDRAWN">>

\* Rows the backend can return, as far as the aggregates read them: a status
\* of the ApplicationStatus type and an optional salary (<<>> when absent),
\* with salaries on both sides of every bucket boundary.
AnalyticsPool ==
  { [status |-> "APPLIED", salary |-> <<>>],
    [status |-> "PHONE_SCREEN", salary |-> <<0>>],
    [status |-> "TECHNICAL", salary |-> <<1>>],
    [status |-> "ONSITE", salary |-> <<49999>>],
    [status |-> "OFFER", salary |-> <<50000>>],
    [status |-> "REJECTED", salary |-> <<75000>>],
    [status |-> "INTERVIEW", salary |-> <<99999>>],
    [status |-> "WITHDRAWN", salary |-> <<200000>>],
    [status |-> "APPLIED", salary |-> <<125000>>],
    [status |-> "OFFER", salary |-> <<199999>>],
    [status |-> "OFFER", salary |-> <<5000000>>],
    [status |-> "REJECTED", salary |-> <<-100>>] }

AnalyticsLists == UNION {[1..n -> AnalyticsPool] : n \in 0..MaxApps}

\* statusCounts: for each key of STATUS_COLORS the number of applications
\* whose status is that key.
statusCounts(apps) ==
  [k \in 1..Len(STATUS_COLORS) |->
     [status |-> STATUS_COLORS[k],
      count |-> Cardinality({i \in 1..Len(apps) : apps[i].status = STATUS_COLORS[k]})]]

\* appsWithSalary: app.salary && app.salary > 0 (undefined and 0 are falsy).
appsWithSalary(apps) ==
  SelectSeq(apps, LAMBDA app : app.salary # <<>> /\ app.salary[1] # 0 /\ app.salary[1] > 0)

\* The salaryRanges literal; max <<>> stands for Infinity.
salaryRanges ==
  << [range |-> "0-50K", min |-> 0, max |-> <<50000>>],
     [range |-> "50-75K", min |-> 50000, max |-> <<75000>>],
     [range |-> "75-100K", min |-> 75000, max |-> <<100000>>],
     [range |-> "100-125K", min |-> 100000, max |-> <<125000>>],
     [range |-> "125-150K", min |-> 125000, max |-> <<150000>>],
     [range |-> "150-200K", min |-> 150000, max |-> <<200000>>],
     [range |-> "200K+", min |-> 200000, max |-> <<>>] >>

\* The same test with the lower bound exclusive: a salary on a boundary is in
\* no range.
InRangeAboveMin(salary, r) ==
  /\ salary > r.min
  /\ r.max = <<>> \/ salary < r.max[1]

\* salary >= r.min && salary < r.max
InRange(salary, r) ==
  /\ salary >= r.min
  /\ r.max = <<>> \/ salary < r.max[1]

\* salaryRanges.find(...): the index of the first range holding the salary,
\* 0 for find's undefined.
FindRange(salary) ==
  LET hits == {k \in 1..Len(salaryRanges) : InRange(salary, salaryRanges[k])}
  IN  IF hits = {} THEN 0 ELSE CHOOSE k \in hits : \A h \in hits : k <= h

\* The forEach over appsWithSalary: range.count++ for the range found, nothing
\* when find returned undefined.
salaryRangeCounts(apps) ==
  LET paid == appsWithSalary(apps)
  IN  [k \in 1..Len(salaryRanges) |->
         [range |-> salaryRanges[k].range,
          count |-> Cardinality({i \in 1..Len(paid) : FindRange(paid[i].salary[1]) = k})]]

\* metrics.active (221-223): the applications whose status is none of
\* REJECTED, WITHDRAWN and OFFER.
active(apps) ==
  Len(SelectSeq(apps, LAMBDA app : app.status \notin {"REJECTED", "WITHDRAWN", "OFFER"}))

\* The useMemo body: null without data or rows, the aggregates otherwise; the
\* returned salaryRanges are those with a count above 0.
ComputeAnalytics(data) ==
  IF ~data.loaded \/ Len(data.rows) = 0 THEN NoAnalytics
  ELSE [computed |-> TRUE, totalApplications |-> Len(data.rows),
        active |-> active(data.rows),
        statusCounts |-> statusCounts(data.rows),
        salaryRanges |-> SelectSeq(salaryRangeCounts(data.rows), LAMBDA r : r.count > 0)]

\* The ["applications"] query settles with a list; the memo recomputes because
\* its dependency changed.
AnalyticsFetched(rows) ==
  /\ ~analyticsData.loaded
  /\ analyticsData' = [loaded |-> TRUE, rows |-> rows]
  /\ analytics' = ComputeAnalytics(analyticsData')
  /\ UNCHANGED notAnalyticsVars

\* A page load builds a new QueryClient, so the query has no data again and
\* the memo returns null.
AnalyticsReload ==
  /\ analyticsData.loaded
  /\ analyticsData' = [loaded |-> FALSE, rows |-> <<>>]
  /\ analytics' = ComputeAnalytics(analyticsData')
  /\ UNCHANGED notAnalyticsVars

InitAnalytics ==
  /\ \E u \in Users : SignedInAt(u, PathDashboard)
  /\ DialogUnmounted
  /\ CacheEmpty
  /\ FilterEmpty
  /\ FormsClosed

NextAnalytics ==
  \/ \E rows \in AnalyticsLists : AnalyticsFetched(rows)
  \/ AnalyticsReload

SpecAnalytics == InitAnalytics /\ [][NextAnalytics]_vars

RECURSIVE SumCounts(_)
SumCounts(entries) ==
  IF entries = <<>> THEN 0 ELSE Head(entries).count + SumCounts(Tail(entries))

\* C19: whenever the aggregates exist, the per-status counts sum to the number
\* of fetched applications; the salary ranges are half-open, start at 0, each
\* begins where the one before ends, and the last has no upper bound; every
\* application with a positive salary lies in exactly one range; and the range
\* counts sum to the number of applications with a positive salary.
C19_AggregatesConsistent ==
  analytics.computed =>
    LET apps == analyticsData.rows
        paid == {i \in 1..Len(apps) : apps[i].salary # <<>> /\ apps[i].salary[1] > 0}
    IN  /\ SumCounts(analytics.statusCounts) = Len(apps)
        /\ analytics.totalApplications = Len(apps)
        /\ salaryRanges[1].min = 0
        /\ \A k \in 1..(Len(salaryRanges) - 1) :
             salaryRanges[k].max = <<salaryRanges[k + 1].min>>
        /\ salaryRanges[Len(salaryRanges)].max = <<>>
        /\ \A i \in paid :
             Cardinality({k \in 1..Len(salaryRanges) :
                            InRange(apps[i].salary[1], salaryRanges[k])}) = 1
        /\ SumCounts(analytics.salaryRanges) = Cardinality(paid)

\* Two applications fetched, one paid exactly the 50,000 on a boundary and one
\* without a salary: the boundary salary is counted in "50-75K" alone.
C19_Witness ==
  /\ analytics.computed
  /\ Len(analyticsData.rows) = 2
  /\ \E i \in 1..2 : analyticsData.rows[i].salary = <<50000>>
  /\ \E i \in 1..2 : analyticsData.rows[i].salary = <<>>
  /\ analytics.salaryRanges = <<[range |-> "50-75K", count |-> 1]>>
  /\ SumCounts(analytics.statusCounts) = 2

\* ---------------------------------------------------------------------------
\* CalendarPage: the month grid and the events under their dates
\* ---------------------------------------------------------------------------

\* Reminders as the backend returns them in a browser tz hours ahead of UTC:
\* reminderDate is what normalizeDateValue sent, the ISO string of the local
\* date and time picked; pickedDay records the day that was picked.
CalendarReminder(id, day, hour, tz) ==
  [id |-> id, pickedDay |-> day,
   reminderDate |-> DateToISOString(NewDate(IsoLocal(day, hour), tz))]

CalendarReminderPool(tz) ==
  { CalendarReminder(1, 28, 1, tz),
    CalendarReminder(2, 58, 23, tz),
    CalendarReminder(3, 13, 12, tz) }

\* Applications with their appliedDate, an ISO 8601 date: the first and the
\* last of March and a day in between.
CalendarApplicationPool ==
  { [id |-> 1, appliedDate |-> IsoDate(28)],
    [id |-> 2, appliedDate |-> IsoDate(42)],
    [id |-> 3, appliedDate |-> IsoDate(58)] }

CalendarLists(pool) ==
  {rows \in UNION {[1..n -> pool] : n \in 0..MaxApps} :
     \A i, j \in 1..Len(rows) : rows[i].id = rows[j].id => i = j}

\* The ["calendar-reminders"] query settles; eventsByDate recomputes.
CalendarRemindersFetched(rows) ==
  /\ ~calReminders.loaded
  /\ calReminders' = [loaded |-> TRUE, rows |-> rows]
  /\ eventsByDate' = EventsByDate(calReminders'.rows, calApplications.rows, calTimeZone)
  /\ UNCHANGED <<calTimeZone, currentMonth, calApplications, monthMatrix>>
  /\ UNCHANGED notCalendarVars

\* The ["applications"] query settles; eventsByDate recomputes.
CalendarApplicationsFetched(rows) ==
  /\ ~calApplications.loaded
  /\ calApplications' = [loaded |-> TRUE, rows |-> rows]
  /\ eventsByDate' = EventsByDate(calReminders.rows, calApplications'.rows, calTimeZone)
  /\ UNCHANGED <<calTimeZone, currentMonth, calReminders, monthMatrix>>
  /\ UNCHANGED notCalendarVars

\* setCurrentMonth and the monthMatrix memo that depends on it.
setCurrentMonth(month) ==
  /\ currentMonth' = month
  /\ monthMatrix' = MonthMatrix(currentMonth')
  /\ UNCHANGED <<calTimeZone, calReminders, calApplications, eventsByDate>>
  /\ UNCHANGED notCalendarVars

handlePrevMonth ==
  /\ currentMonth > FirstMonth
  /\ setCurrentMonth(startOfMonth(addDays(currentMonth, -1)))

handleNextMonth ==
  /\ currentMonth < LastMonth
  /\ setCurrentMonth(startOfMonth(addDays(endOfMonth(currentMonth), 1)))

handleToday ==
  /\ currentMonth # startOfMonth(Today)
  /\ setCurrentMonth(startOfMonth(Today))

\* The page is loaded in a browser whose local time is tz hours ahead of UTC:
\* a new QueryClient, the state of a first mount.
CalendarReload(tz) ==
  /\ calTimeZone' = tz
  /\ currentMonth' = startOfMonth(Today)
  /\ calReminders' = [loaded |-> FALSE, rows |-> <<>>]
  /\ calApplications' = [loaded |-> FALSE, rows |-> <<>>]
  /\ monthMatrix' = MonthMatrix(currentMonth')
  /\ eventsByDate' = EventsByDate(<<>>, <<>>, tz)
  /\ UNCHANGED notCalendarVars

InitCalendar ==
  /\ \E u \in Users : u.role = "ADMIN" /\ SignedInAt(u, PathDashboard)
  /\ DialogUnmounted
  /\ CacheEmpty
  /\ FilterEmpty
  /\ FormsClosed

NextCalendar ==
  \/ \E rows \in CalendarLists(CalendarReminderPool(calTimeZone)) : CalendarRemindersFetched(rows)
  \/ \E rows \in CalendarLists(CalendarApplicationPool) : CalendarApplicationsFetched(rows)
  \/ handlePrevMonth
  \/ handleNextMonth
  \/ handleToday
  \/ \E tz \in TimeZones : CalendarReload(tz)

SpecCalendar == InitCalendar /\ [][NextCalendar]_vars

\* The date keys under which eventsByDate holds the event with this id.
BucketsOf(eventId) ==
  {k \in DOMAIN eventsByDate :
     \E i \in 1..Len(eventsByDate[k]) : eventsByDate[k][i].id = eventId}

\* Every fetched reminder is under exactly one date key, the day picked for it.
RemindersBucketed ==
  \A i \in 1..Len(calReminders.rows) :
    BucketsOf(<<"reminder", calReminders.rows[i].id>>) = {calReminders.rows[i].pickedDay}

\* Every fetched application is under exactly one date key.
ApplicationsInOneBucket ==
  \A i \in 1..Len(calApplications.rows) :
    Cardinality(BucketsOf(<<"application", calApplications.rows[i].id>>)) = 1

\* Every fetched application is under the key of its applied date.
ApplicationsUnderAppliedDate ==
  \A i \in 1..Len(calApplications.rows) :
    calApplications.rows[i].appliedDate.day
      \in BucketsOf(<<"application", calApplications.rows[i].id>>)

\* The grid is whole weeks of seven consecutive days, each starting on a
\* Sunday and following the one before, and holds every day of the month.
MonthGridWhole ==
  /\ \A w \in 1..Len(monthMatrix) :
       /\ Len(monthMatrix[w]) = 7
       /\ getDay(monthMatrix[w][1]) = 0
       /\ \A i \in 1..6 : monthMatrix[w][i + 1] = monthMatrix[w][i] + 1
       /\ w > 1 => monthMatrix[w][1] = monthMatrix[w - 1][1] + 7
  /\ \A day \in currentMonth..endOfMonth(currentMonth) :
       \E w \in 1..Len(monthMatrix) : \E i \in 1..7 : monthMatrix[w][i] = day

\* C20: every fetched reminder and every fetched application appears in
\* exactly one date bucket, the one for its reminder date or applied date, and
\* the month grid consists of whole 7-day weeks starting on Sunday that
\* together contain every day of the displayed month.
C20_CalendarBucketing ==
  /\ RemindersBucketed
  /\ ApplicationsInOneBucket
  /\ ApplicationsUnderAppliedDate
  /\ MonthGridWhole

\* What does hold: everything but the applied-date key, and that key too in a
\* browser whose local time is not behind UTC.
CalendarBucketingEastOfUTC ==
  /\ RemindersBucketed
  /\ ApplicationsInOneBucket
  /\ MonthGridWhole
  /\ calTimeZone >= 0 => ApplicationsUnderAppliedDate

\* ---------------------------------------------------------------------------
\* The status badges of the applications list and of the application detail
\* ---------------------------------------------------------------------------

\* The ApplicationStatus union type.
ApplicationStatus ==
  {"APPLIED", "PHONE_SCREEN", "TECHNICAL", "ONSITE", "OFFER", "REJECTED",
   "INTERVIEW", "WITHDRAWN"}

\* STATUS_COLORS of ApplicationsListPage.
ListStatusColors ==
  << [key |-> "APPLIED", value |-> "bg-blue-100 text-blue-800"],
     [key |-> "PHONE_SCREEN", value |-> "bg-purple-100 text-purple-800"],
     [key |-> "TECHNICAL", value |-> "bg-pink-100 text-pink-800"],
     [key |-> "ONSITE", value |-> "bg-amber-100 text-amber-800"],
     [key |-> "OFFER", value |-> "bg-green-100 text-green-800"],
     [key |-> "REJECTED", value |-> "bg-red-100 text-red-800"],
     [key |-> "INTERVIEW", value |-> "bg-cyan-100 text-cyan-800"],
     [key |-> "WITHDRAWN", value |-> "bg-gray-100 text-gray-800"] >>

\* The table with the slate classes another page uses for WITHDRAWN.
DetailStatusColorsSlate ==
  << [key |-> "APPLIED", value |-> "bg-blue-100 text-blue-800"],
     [key |-> "PHONE_SCREEN", value |-> "bg-purple-100 text-purple-800"],
     [key |-> "TECHNICAL", value |-> "bg-pink-100 text-pink-800"],
     [key |-> "ONSITE", value |-> "bg-amber-100 text-amber-800"],
     [key |-> "OFFER", value |-> "bg-green-100 text-green-800"],
     [key |-> "REJECTED", value |-> "bg-red-100 text-red-800"],
     [key |-> "INTERVIEW", value |-> "bg-cyan-100 text-cyan-800"],
     [key |-> "WITHDRAWN", value |-> "bg-slate-100 text-slate-700"] >>

\* STATUS_COLORS of ApplicationDetailPage.
DetailStatusColors ==
  << [key |-> "APPLIED", value |-> "bg-blue-100 text-blue-800"],
     [key |-> "PHONE_SCREEN", value |-> "bg-purple-100 text-purple-800"],
     [key |-> "TECHNICAL", value |-> "bg-pink-100 text-pink-800"],
     [key |-> "ONSITE", value |-> "bg-amber-100 text-amber-800"],
     [key |-> "OFFER", value |-> "bg-green-100 text-green-800"],
     [key |-> "REJECTED", value |-> "bg-red-100 text-red-800"],
     [key |-> "INTERVIEW", value |-> "bg-cyan-100 text-cyan-800"],
     [key |-> "WITHDRAWN", value |-> "bg-gray-100 text-gray-800"] >>

\* table[key] of an object literal: the value of the property, "undefined"
\* (what the className attribute gets) when there is none.
Property(table, key) ==
  IF \E i \in 1..Len(table) : table[i].key = key
  THEN table[CHOOSE i \in 1..Len(table) : table[i].key = key].value
  ELSE "undefined"

\* <Badge className={STATUS_COLORS[app.status]}> of a list row.
ListRowBadge(status) ==
  [shown |-> TRUE, status |-> status, className |-> <<Property(ListStatusColors, status)>>]

\* <Badge className={`mt-2 ${STATUS_COLORS[application.status]}`}>
DetailPageBadge(status) ==
  [shown |-> TRUE, status |-> status,
   className |-> <<"mt-2", Property(DetailStatusColors, status)>>]

StatusLists == UNION {[1..n -> ApplicationStatus] : n \in 0..MaxApps}

\* The list page's query settles and the table renders one badge per row.
ListBadgesRendered(statuses) ==
  /\ ~listBadges.loaded
  /\ listBadges' = [loaded |-> TRUE,
                    rows |-> [i \in 1..Len(statuses) |-> ListRowBadge(statuses[i])]]
  /\ UNCHANGED detailBadge
  /\ UNCHANGED notBadgeVars

\* The detail page's query settles and the overview card renders the badge.
DetailBadgeRendered(status) ==
  /\ ~detailBadge.shown
  /\ detailBadge' = DetailPageBadge(status)
  /\ UNCHANGED listBadges
  /\ UNCHANGED notBadgeVars

\* A page load: both pages are without data again.
BadgesReload ==
  /\ listBadges.loaded \/ detailBadge.shown
  /\ listBadges' = [loaded |-> FALSE, rows |-> <<>>]
  /\ detailBadge' = NoBadge
  /\ UNCHANGED notBadgeVars

InitBadges ==
  /\ \E u \in Users : u.role = "ADMIN" /\ SignedInAt(u, PathApplications)
  /\ DialogUnmounted
  /\ CacheEmpty
  /\ FilterEmpty
  /\ FormsClosed

NextBadges ==
  \/ \E statuses \in StatusLists : ListBadgesRendered(statuses)
  \/ \E status \in ApplicationStatus : DetailBadgeRendered(status)
  \/ BadgesReload

SpecBadges == InitBadges /\ [][NextBadges]_vars

\* The colour classes of a rendered badge: its className without the margin
\* class of the detail page.
ColourClass(badge) == SelectSeq(badge.className, LAMBDA c : c # "mt-2")

\* C21: every one of the eight statuses has a colour class in both tables,
\* distinct statuses have distinct classes, and every badge rendered on the
\* list page and on the detail page carries the class of its status, the same
\* on both pages for the same status.
C21_StatusBadges ==
  /\ \A s \in ApplicationStatus :
       /\ Property(ListStatusColors, s) # "undefined"
       /\ Property(DetailStatusColors, s) # "undefined"
  /\ \A s, t \in ApplicationStatus :
       s # t => /\ Property(ListStatusColors, s) # Property(ListStatusColors, t)
                /\ Property(DetailStatusColors, s) # Property(DetailStatusColors, t)
  /\ \A i \in 1..Len(listBadges.rows) :
       /\ ColourClass(listBadges.rows[i]) # <<"undefined">>
       /\ \A j \in 1..Len(listBadges.rows) :
            (listBadges.rows[i].status = listBadges.rows[j].status)
              <=> (ColourClass(listBadges.rows[i]) = ColourClass(listBadges.rows[j]))
       /\ detailBadge.shown =>
            ((listBadges.rows[i].status = detailBadge.status)
               <=> (ColourClass(listBadges.rows[i]) = ColourClass(detailBadge)))
  /\ detailBadge.shown => ColourClass(detailBadge) # <<"undefined">>

\* A withdrawn and an offered application in the list, the withdrawn one open
\* on the detail page: grey on both pages, green for the offer.
C21_Witness ==
  /\ Len(listBadges.rows) = 2
  /\ listBadges.rows[1].status = "WITHDRAWN"
  /\ listBadges.rows[2].status = "OFFER"
  /\ detailBadge.shown /\ detailBadge.status = "WITHDRAWN"
  /\ detailBadge.className = <<"mt-2", "bg-gray-100 text-gray-800">>
  /\ listBadges.rows[1].className = <<"bg-gray-100 text-gray-800">>
  /\ listBadges.rows[2].className = <<"bg-green-100 text-green-800">>

\* C22: in every reachable state local storage holds the token key if and
\* only if it holds the user key.
C22_StorageKeysPaired ==
  (lsToken # Null) <=> (lsUser # NoItem)

\* The stored session is valid: a non-empty token and a user item that is the
\* JSON of a user.
ValidStoredSession == Truthy(lsToken) /\ lsUser # NoItem /\ JSONParses(lsUser)

\* C23: while the provider is loading, a protected route shows the spinner and
\* nothing else; when loading ends on a protected URL with a valid session in
\* local storage, the session is restored and the route does not navigate to
\* /login; and whatever local storage holds, isLoading eventually becomes
\* false.
C23_RestoreBeforeGuard ==
  /\ [](isLoading /\ location.path \in ProtectedPaths
          => lastGuard.shown = "spinner" /\ lastGuard.nav = NoNav)
  /\ [][(isLoading /\ ~isLoading' /\ ValidStoredSession /\ location.path \in ProtectedPaths)
          => /\ location'.path # PathLogin
             /\ lastGuard'.nav.path # PathLogin
             /\ isAuthenticated(token', user')
             /\ token' = lsToken /\ user' = JSONParse(lsUser)]_vars
  /\ [](isLoading => <>(~isLoading))

\* The dashboard was opened with a stored session, the spinner was shown, the
\* session was restored and the page is rendered.
C23_Witness ==
  /\ ~isLoading
  /\ restored
  /\ ValidStoredSession
  /\ location.path = PathDashboard
  /\ lastGuard.shown = "children"
  /\ sessionToken = Null

\* C24: at most one account-delete request is in flight at any time, also
\* when the dialog is closed and reopened before the first request settles.
C24_OneDeleteInFlight ==
  Cardinality({r \in inflight : r.kind = "deleteUser"}) <= 1

\* C25: once no existence check is in flight and none is scheduled, the
\* email-exists flag is the server's answer for the email in the field.
C25_FlagFollowsEmail ==
  (checks = <<>> /\ ~checkTimer.armed) => (emailExists <=> email \in RegisteredEmails)

\* ---------------------------------------------------------------------------
\* RemindersListPage: the filters, the four sections and the empty state
\* ---------------------------------------------------------------------------

\* new Date() when groupedReminders is computed: noon of day 0, in hours of
\* local time.
RemindersNow == 12

\* Reminders the backend can return, their reminderDate as the local instant
\* new Date gives: yesterday, earlier today, later today, tomorrow, later.
RemindersPool ==
  { [id |-> 1, sent |-> FALSE, at |-> -20, reminderMessage |-> <<"a">>, application |-> <<>>],
    [id |-> 2, sent |-> TRUE, at |-> -20, reminderMessage |-> <<"A", "b">>, application |-> <<>>],
    [id |-> 3, sent |-> FALSE, at |-> 3, reminderMessage |-> <<"b">>, application |-> <<<<"a">>>>],
    [id |-> 4, sent |-> FALSE, at |-> 20, reminderMessage |-> <<"a">>, application |-> <<>>],
    [id |-> 5, sent |-> FALSE, at |-> 30, reminderMessage |-> <<"c">>, application |-> <<<<"C">>>>],
    [id |-> 6, sent |-> TRUE, at |-> 60, reminderMessage |-> <<"a", "c">>, application |-> <<>>] }

RemindersLists ==
  {rows \in UNION {[1..n -> RemindersPool] : n \in 0..MaxApps} :
     \A i, j \in 1..Len(rows) : rows[i].id = rows[j].id => i = j}

StatusFilterValues == {"all", "open", "sent"}

SearchQueries == {<<>>, <<"A">>}

\* date-fns isToday, isTomorrow and isAfter on local instants.
isToday(date) == date \div 24 = RemindersNow \div 24

isTomorrow(date) == date \div 24 = (RemindersNow \div 24) + 1

isAfter(date, dateToCompare) == date > dateToCompare

\* The predicate of filteredReminders: the status filter, and the search text
\* in `${reminderMessage} ${companyName ?? ""}` without regard to case (the
\* applications query gives no name for a reminder without its application).
MatchesFilters(reminder, filter, query) ==
  LET statusMatches ==
        \/ filter = "all"
        \/ filter = "open" /\ ~reminder.sent
        \/ filter = "sent" /\ reminder.sent
      application == IF reminder.application # <<>> THEN reminder.application[1] ELSE <<>>
      haystack == toLowerCase(reminder.reminderMessage \o <<" ">> \o application)
  IN  statusMatches /\ includes(haystack, toLowerCase(query))

filteredReminders(rows, filter, query) ==
  SelectSeq(rows, LAMBDA reminder : MatchesFilters(reminder, filter, query))

\* groupedReminders: four filters of filteredReminders.
GroupReminders(filtered) ==
  [overdue |-> SelectSeq(filtered, LAMBDA r : ~r.sent /\ r.at < RemindersNow),
   today |-> SelectSeq(filtered, LAMBDA r : isToday(r.at)),
   tomorrow |-> SelectSeq(filtered, LAMBDA r : isTomorrow(r.at)),
   upcoming |-> SelectSeq(filtered, LAMBDA r :
                  ~isToday(r.at) /\ ~isTomorrow(r.at) /\ isAfter(r.at, RemindersNow))]

\* hasData and the conditional of the render: the skeletons while loading, the
\* sections when one of them has a reminder, the empty state otherwise.
RemindersRender(loaded, grouped) ==
  IF ~loaded THEN "skeleton"
  ELSE IF \/ Len(grouped.overdue) # 0 \/ Len(grouped.today) # 0
          \/ Len(grouped.tomorrow) # 0 \/ Len(grouped.upcoming) # 0
  THEN "sections"
  ELSE "empty"

\* The memos and the render that follow a change of the page's state.
RemindersRecompute ==
  /\ groupedReminders' =
       GroupReminders(filteredReminders(remindersData'.rows, statusFilter', searchQuery'))
  /\ remindersView' = RemindersRender(remindersData'.loaded, groupedReminders')

\* The ["reminders-all"] query settles.
RemindersListFetched(rows) ==
  /\ ~remindersData.loaded
  /\ remindersData' = [loaded |-> TRUE, rows |-> rows]
  /\ UNCHANGED <<statusFilter, searchQuery>>
  /\ RemindersRecompute
  /\ UNCHANGED notRemindersVars

\* A click on one of the three filter buttons.
setStatusFilter(filter) ==
  /\ filter # statusFilter
  /\ statusFilter' = filter
  /\ UNCHANGED <<remindersData, searchQuery>>
  /\ RemindersRecompute
  /\ UNCHANGED notRemindersVars

\* Typing in the search box.
setSearchQuery(query) ==
  /\ query # searchQuery
  /\ searchQuery' = query
  /\ UNCHANGED <<remindersData, statusFilter>>
  /\ RemindersRecompute
  /\ UNCHANGED notRemindersVars

\* A page load: the page mounts anew.
RemindersListReload ==
  /\ remindersData.loaded
  /\ remindersData' = [loaded |-> FALSE, rows |-> <<>>]
  /\ statusFilter' = "all"
  /\ searchQuery' = <<>>
  /\ RemindersRecompute
  /\ UNCHANGED notRemindersVars

InitReminders ==
  /\ \E u \in Users : u.role = "ADMIN" /\ SignedInAt(u, PathDashboard)
  /\ DialogUnmounted
  /\ CacheEmpty
  /\ FilterEmpty
  /\ FormsClosed

NextReminders ==
  \/ \E rows \in RemindersLists : RemindersListFetched(rows)
  \/ \E filter \in StatusFilterValues : setStatusFilter(filter)
  \/ \E query \in SearchQueries : setSearchQuery(query)
  \/ RemindersListReload

SpecReminders == InitReminders /\ [][NextReminders]_vars

\* The sections that show the reminder with this id.
SectionsOf(id) ==
  {section \in {"overdue", "today", "tomorrow", "upcoming"} :
     \E i \in 1..Len(groupedReminders[section]) : groupedReminders[section][i].id = id}

\* The fetched reminders that pass the status filter and the search.
PassingFilters ==
  {i \in 1..Len(remindersData.rows) :
     MatchesFilters(remindersData.rows[i], statusFilter, searchQuery)}

\* C26: once the reminders are fetched, every reminder that passes the search
\* and status filters is shown in exactly one of the four sections, and the
\* empty state is shown only when no reminder passes the filters.
C26_OneSectionEach ==
  remindersData.loaded =>
    /\ \A i \in PassingFilters :
         /\ remindersView = "sections"
         /\ Cardinality(SectionsOf(remindersData.rows[i].id)) = 1
    /\ remindersView = "empty" => PassingFilters = {}

\* What does hold: a reminder that is not sent, or not in the past, is shown
\* in at least one section, and one that is not both unsent and earlier today
\* in at most one.
RemindersSectionsWeak ==
  remindersData.loaded =>
    \A i \in PassingFilters :
      LET r == remindersData.rows[i]
      IN  /\ (~r.sent \/ r.at >= RemindersNow \/ isToday(r.at)) =>
               SectionsOf(r.id) # {}
          /\ ~(~r.sent /\ isToday(r.at) /\ r.at < RemindersNow) =>
               Cardinality(SectionsOf(r.id)) <= 1

\* ---------------------------------------------------------------------------
\* The sidebar's navigation and the routes
\* ---------------------------------------------------------------------------

\* Entries the history stack may hold.
MaxHistory == 3

\* A <Route>: its path as segments and the page of its element. A segment
\* ":id" is a parameter, "*" is the splat.
Route(path, element) == [path |-> path, page |-> element]

\* The <Routes> of Router in main.tsx.
MainRoutes ==
  << Route(<<"login">>, "LoginPage"),
     Route(<<"register">>, "RegisterPage"),
     Route(<<"verify-email">>, "VerifyEmailPage"),
     Route(<<"dashboard">>, "DashboardPage"),
     Route(<<"applications">>, "ApplicationsListPage"),
     Route(<<"applications", "new">>, "AddApplicationPage"),
     Route(<<"applications", ":id">>, "ApplicationDetailPage"),
     Route(<<"applications", ":id", "edit">>, "EditApplicationPage"),
     Route(<<"reminders">>, "RemindersListPage"),
     Route(<<"calendar">>, "CalendarPage"),
     Route(<<"profile">>, "ProfilePage"),
     Route(<<"profile", "edit">>, "EditProfilePage"),
     Route(<<"settings">>, "SettingsPage"),
     Route(<<>>, "Navigate"),
     Route(<<"404">>, "NotFoundPage"),
     Route(<<"*">>, "NotFoundPage") >>

\* The <Routes> of Router in App.tsx.
AppRoutes ==
  << Route(<<"login">>, "LoginPage"),
     Route(<<"register">>, "RegisterPage"),
     Route(<<"verify-email">>, "VerifyEmailPage"),
     Route(<<"dashboard">>, "DashboardPage"),
     Route(<<"applications">>, "ApplicationsListPage"),
     Route(<<"applications", "new">>, "AddApplicationPage"),
     Route(<<"applications", ":id">>, "ApplicationDetailPage"),
     Route(<<"applications", ":id", "edit">>, "EditApplicationPage"),
     Route(<<"reminders">>, "RemindersListPage"),
     Route(<<"profile">>, "ProfilePage"),
     Route(<<>>, "Navigate"),
     Route(<<"404">>, "NotFoundPage"),
     Route(<<"*">>, "NotFoundPage") >>

RoutesOf(r) == IF r = "main" THEN MainRoutes ELSE AppRoutes

IsParam(segment) == segment = ":id"

IsSplat(pattern) == pattern # <<>> /\ pattern[Len(pattern)] = "*"

\* react-router's matchPath: segment by segment, a parameter matches any
\* segment, a trailing splat the rest.
matchPath(pattern, pathname) ==
  IF IsSplat(pattern)
  THEN /\ Len(pathname) >= Len(pattern) - 1
       /\ \A i \in 1..(Len(pattern) - 1) : IsParam(pattern[i]) \/ pattern[i] = pathname[i]
  ELSE /\ Len(pathname) = Len(pattern)
       /\ \A i \in 1..Len(pattern) : IsParam(pattern[i]) \/ pattern[i] = pathname[i]

\* react-router's computeScore: the number of segments, 10 for a static
\* segment, 3 for a parameter, 1 for an empty path, -2 for a splat.
RECURSIVE SegmentScore(_)
SegmentScore(pattern) ==
  IF pattern = <<>> THEN 0
  ELSE (IF Head(pattern) = "*" THEN 0 ELSE IF IsParam(Head(pattern)) THEN 3 ELSE 10)
       + SegmentScore(Tail(pattern))

computeScore(pattern) ==
  IF pattern = <<>> THEN 2
  ELSE Len(pattern) + (IF IsSplat(pattern) THEN -2 ELSE 0) + SegmentScore(pattern)

\* matchRoutes: the matching route with the highest score, the earlier one of
\* two with the same score; the catch-all matches every location.
matchRoutes(routes, pathname) ==
  LET hits == {i \in 1..Len(routes) : matchPath(routes[i].path, pathname)}
      best == CHOOSE i \in hits :
                \A j \in hits :
                  \/ computeScore(routes[i].path) > computeScore(routes[j].path)
                  \/ computeScore(routes[i].path) = computeScore(routes[j].path) /\ i <= j
  IN  routes[best]

\* navSections: the paths of the sidebar's items.
navSections ==
  << <<"dashboard">>, <<"analytics">>, <<"applications">>, <<"reminders">>,
     <<"calendar">>, <<"profile">>, <<"settings">> >>

\* Every path a click in the sidebar navigates to: the brand button, the
\* items, the New Application button.
SidebarPaths ==
  {<<"dashboard">>, <<"applications", "new">>} \cup {navSections[i] : i \in 1..Len(navSections)}

\* navigate(path) from the sidebar, which Layout renders around the pages of
\* the protected routes only: the location is pushed and the routes matched.
SidebarNavigate(path) ==
  /\ routeElement \notin {"NotFoundPage", "LoginPage", "RegisterPage", "VerifyEmailPage"}
  /\ Len(history) < MaxHistory
  /\ history' = Append(history, path)
  /\ routeElement' = matchRoutes(RoutesOf(router), path).page
  /\ UNCHANGED router
  /\ UNCHANGED notNavVars

\* The browser's back button.
HistoryBack ==
  /\ Len(history) > 1
  /\ history' = SubSeq(history, 1, Len(history) - 1)
  /\ routeElement' = matchRoutes(RoutesOf(router), history'[Len(history')]).page
  /\ UNCHANGED router
  /\ UNCHANGED notNavVars

\* The application is loaded at /dashboard with one of the two routers.
RouterLoaded(r) ==
  /\ router' = r
  /\ history' = <<(<<"dashboard">>)>>
  /\ routeElement' = matchRoutes(RoutesOf(r), <<"dashboard">>).page
  /\ <<router', history'>> # <<router, history>>
  /\ UNCHANGED notNavVars

InitSidebar ==
  /\ \E u \in Users : u.role = "ADMIN" /\ SignedInAt(u, PathDashboard)
  /\ DialogUnmounted
  /\ CacheEmpty
  /\ FilterEmpty
  /\ FormsClosed

NextSidebar ==
  \/ \E path \in SidebarPaths : SidebarNavigate(path)
  \/ HistoryBack
  \/ \E r \in {"main", "App"} : RouterLoaded(r)

SpecSidebar == InitSidebar /\ [][NextSidebar]_vars

\* C27: every path the sidebar can navigate to matches a registered route
\* other than the catch-all, so a location the sidebar navigated to never
\* shows the NotFound page.
C27_SidebarRoutesExist ==
  history[Len(history)] \in SidebarPaths =>
    /\ ~IsSplat(matchRoutes(RoutesOf(router), history[Len(history)]).path)
    /\ routeElement # "NotFoundPage"

\* What does hold under the Router of main.tsx: every sidebar path but
\* /analytics has its route.
SidebarRoutesButAnalytics ==
  /\ \A path \in SidebarPaths \ {<<"analytics">>} :
       ~IsSplat(matchRoutes(MainRoutes, path).path)
  /\ (router = "main" /\ history[Len(history)] # <<"analytics">>) => routeElement # "NotFoundPage"

\* ---------------------------------------------------------------------------
\* The cooldown of the resend button (VerifyEmailPage)
\* ---------------------------------------------------------------------------

\* A step in which a resend request settles.
ResendSettled == isResending /\ ~isResending'

\* A step in which a resend request is issued.
ResendIssued == ~isResending /\ isResending'

\* C28: the cooldown counter starts at 60 with a successful resend and with
\* nothing else, a failed resend leaves it alone, every other change of it is
\* a decrease by exactly 1, it stays within 0..60 and stays 0 once there until
\* the next successful resend, no resend request is issued while it is above
\* 0 or while a resend is in flight, and a counter above 0 eventually
\* reaches 0.
C28_ResendCooldown ==
  /\ [](resendCooldown \in 0..ResendCooldown)
  /\ [][/\ ResendSettled /\ lastResend' = "sent" => resendCooldown' = ResendCooldown
        /\ ResendSettled /\ lastResend' = "failed" => resendCooldown' = resendCooldown
        /\ ResendSettled => lastResend' \in {"sent", "failed"}
        /\ ~ResendSettled /\ resendCooldown' # resendCooldown =>
             resendCooldown > 0 /\ resendCooldown' = resendCooldown - 1
        /\ ResendIssued => resendCooldown = 0
        /\ isResending => resendCooldown = 0]_vars
  /\ (resendCooldown > 0) ~> (resendCooldown = 0)

\* The counter one tick after a successful resend started it.
C28_Witness ==
  /\ lastResend = "sent"
  /\ ~isResending
  /\ resendCooldown = ResendCooldown - 1

\* ---------------------------------------------------------------------------
\* The "Active Applications" figure (ProfilePage, AnalyticsPage)
\* ---------------------------------------------------------------------------

\* ProfilePage's activeApplications (ApplicationDetailPage.tsx 778-780) over
\* the data of the same ["applications"] query: the applications whose status
\* is neither REJECTED nor WITHDRAWN, 0 while the query has no data.
activeApplications(data) ==
  IF ~data.loaded THEN 0
  ELSE Len(SelectSeq(data.rows, LAMBDA app : app.status \notin {"REJECTED", "WITHDRAWN"}))

\* C29: for every fetched list for which the Analytics page shows its
\* figures, the Profile page and the Analytics page report the same number of
\* active applications.
C29_SameActiveCount ==
  analytics.computed => analytics.active = activeApplications(analyticsData)

\* The two figures differ by the number of offers in the list.
ActiveCountsDifferByOffers ==
  analytics.computed =>
    activeApplications(analyticsData) =
      analytics.active
        + Cardinality({i \in 1..Len(analyticsData.rows) : analyticsData.rows[i].status = "OFFER"})

====
